---- MODULE Spec2Model ----
(***************************************************************************)
(* rift: replication of ZFS snapshots between a source and a target        *)
(* dataset.  The model covers the decision engines of                      *)
(* src/src/rift/datasets.py (ancestor, send, sync, prune) over a backend   *)
(* whose observable behaviour is that of the in-memory file system of      *)
(* src/src/rift/tests/mocks.py, and the supervision of a process chain by  *)
(* SystemRunner.main of src/src/rift/commands.py.                          *)
(*                                                                         *)
(* A snapshot reference is a record [kind, name, guid, createtxg].  The    *)
(* dataset path is left out of the record: every listing of the model     *)
(* belongs to exactly one dataset, and no decision of the code reads it.   *)
(***************************************************************************)
EXTENDS Integers, Sequences, FiniteSets, TLC

\* Number of creation transactions (createtxg values) the source has seen.
MaxSnap == 3
\* Number of snapshots the target holds in an initial state.
MaxTgt == 2
\* Number of rules of a retention policy.
MaxRules == 2
\* Greatest keep count of a retention rule.
MaxKeep == 2
\* Number of stages of a pipeline.
MaxStages == 3
MaxLines == 2
MaxMsg == 2
MaxCalls == 4
\* Number of bytes a stage writes to its output.
MaxBytes == 4
\* Number of bytes a pipe holds before its writer has to wait.
MaxPipe == 3
\* Number of bytes one read of the forwarder returns at most.
MaxChunk == 2

VARIABLES
    src_snaps,   \* source backend: its snapshots (a set of references)
    src_bms,     \* source backend: its bookmarks
    tgt_exists,  \* target backend: whether the dataset exists
    tgt_snaps,   \* target backend: its snapshots
    tgt_token,   \* target backend: receive_resume_token, NoToken when "-"
    last,        \* what the last operation did, as seen by its caller
    run,         \* the pipeline invocation SystemRunner.main is supervising
    zfs          \* a ZfsBackend handle, its caches and the dataset behind it

vars == <<src_snaps, src_bms, tgt_exists, tgt_snaps, tgt_token, last, run, zfs>>

-----------------------------------------------------------------------------
(* Entity model *)

Snapshot(name, guid, createtxg) ==
    [kind |-> "snapshot", name |-> name, guid |-> guid, createtxg |-> createtxg]

Bookmark(name, guid, createtxg) ==
    [kind |-> "bookmark", name |-> name, guid |-> guid, createtxg |-> createtxg]

\* Python's None, for an Optional[Snapshot | Bookmark].
None == [kind |-> "none", name |-> <<>>, guid |-> <<>>, createtxg |-> 0]

\* resume_token() is None when zfs prints "-".
NoToken == <<>>

\* The name and the guid the source gives to the state created in txg c.
NameOf(c) == <<"s", c>>
GuidOf(c) == <<"uuid", c>>

\* The resume token identifies the snapshot being received by its name.
fqn2token(name) == <<"token", name>>
token2fqn(token) == token[2]

Range(seq) == {seq[i] : i \in 1..Len(seq)}

Max(S) == CHOOSE x \in S : \A y \in S : y <= x

-----------------------------------------------------------------------------
(* Listings *)

\* The order the backend lists a dataset's entries in is not specified: the
\* model lists them by descending ("desc") or ascending ("asc") createtxg.
RECURSIVE BackendListing(_, _)
BackendListing(S, ord) ==
    IF S = {} THEN <<>>
    ELSE LET t == Max({e.createtxg : e \in S})
             e == CHOOSE x \in S : x.createtxg = t
         IN  IF ord = "desc"
             THEN <<e>> \o BackendListing(S \ {e}, ord)
             ELSE BackendListing(S \ {e}, ord) \o <<e>>

\* One step of Python's stable sort: e goes behind every entry whose key is
\* not greater than its own.
RECURSIVE InsertSorted(_, _, _)
InsertSorted(sorted, e, key) ==
    IF sorted = <<>> THEN <<e>>
    ELSE IF key[e] < key[Head(sorted)]
         THEN <<e>> \o sorted
         ELSE <<Head(sorted)>> \o InsertSorted(Tail(sorted), e, key)

RECURSIVE SortedBy(_, _)
SortedBy(seq, key) ==
    IF seq = <<>> THEN <<>>
    ELSE InsertSorted(SortedBy(SubSeq(seq, 1, Len(seq) - 1), key), seq[Len(seq)], key)

\* A third order: the descending listing with its first entry moved to the
\* end ("rot"), which is neither ascending nor descending from three entries
\* on.
BackendListed(S, ord) ==
    IF ord = "rot" /\ S # {}
    THEN Tail(BackendListing(S, "desc")) \o <<Head(BackendListing(S, "desc"))>>
    ELSE BackendListing(S, IF ord = "rot" THEN "desc" ELSE ord)

\* Mutant: the backend's listing handed on as it came, unsorted.
BackendOrder(listing) == listing

\* Mutant: the listing sorted by the number in the entries' names.
ByName(seq) == [e \in Range(seq) |-> e.name[2]]

\* Dataset.snapshots() and Dataset.bookmarks(): the backend's listing sorted
\* by createtxg, oldest first.
ByCreatetxg(seq) == [e \in Range(seq) |-> e.createtxg]
DatasetListing(listing) == SortedBy(listing, ByCreatetxg(listing))

Guids(seq) == {seq[i].guid : i \in 1..Len(seq)}

-----------------------------------------------------------------------------
(* Ancestor resolver *)

\* Mutant: the sort key without the snapshot-over-bookmark tie-break.
AncestorKeyTxgOnly(seq) == [e \in Range(seq) |-> e.createtxg]

\* The sort key (createtxg, isinstance(s, Snapshot)) as one integer.
AncestorKey(seq) ==
    [e \in Range(seq) |-> 2 * e.createtxg + (IF e.kind = "snapshot" THEN 1 ELSE 0)]

\* Mutant: "not newer" in place of "older".
AncestorNotNewer(snapshot, e) == e.createtxg <= snapshot.createtxg

\* The candidates of ancestor(): older than the snapshot, sorted.
AncestorOlder(snapshot, e) == e.createtxg < snapshot.createtxg

AncestorCandidates(snapshot, source_snapshots, source_bookmarks) ==
    LET older(e) == AncestorOlder(snapshot, e)
        cands == SelectSeq(source_snapshots \o source_bookmarks, older)
    IN  SortedBy(cands, AncestorKey(cands))

\* Mutant: the scan without reversed(): the oldest common reference.
RECURSIVE AncestorScanOldest(_, _)
AncestorScanOldest(candidates, target_guids) ==
    IF candidates = <<>> THEN None
    ELSE IF Head(candidates).guid \in target_guids THEN Head(candidates)
    ELSE AncestorScanOldest(Tail(candidates), target_guids)

\* Mutant: the scan that takes the newest candidate without looking at the
\* target.
AncestorScanNewest(candidates, target_guids) ==
    IF candidates = <<>> THEN None ELSE candidates[Len(candidates)]

\* The scan of reversed(candidates): the last candidate whose guid is on the
\* target, None when there is none.
RECURSIVE AncestorScan(_, _)
AncestorScan(candidates, target_guids) ==
    IF candidates = <<>> THEN None
    ELSE LET e == candidates[Len(candidates)]
         IN  IF e.guid \in target_guids THEN e
             ELSE AncestorScan(SubSeq(candidates, 1, Len(candidates) - 1), target_guids)

\* ancestor(snapshot, source, target), on the three listings it reads.
ancestor(snapshot, source_snapshots, source_bookmarks, target_snapshots) ==
    AncestorScan(AncestorCandidates(snapshot, source_snapshots, source_bookmarks),
                 Guids(target_snapshots))

-----------------------------------------------------------------------------
(* Backend: the dataset a handle stands for *)

\* The order a backend lists in unless told otherwise.
ListingOrder == "desc"

\* A dataset as the backend holds it, and the order the backend lists it in.
Dataset(exists, snaps, bms, token) ==
    [exists |-> exists, snaps |-> snaps, bms |-> bms, token |-> token,
     order |-> ListingOrder]

\* The same dataset behind a backend that lists in another order.
Listed(dataset, ord) == [dataset EXCEPT !.order = ord]

snapshots(dataset) == DatasetListing(BackendListed(dataset.snaps, dataset.order))
bookmarks(dataset) == DatasetListing(BackendListed(dataset.bms, dataset.order))

\* The three shapes of a send stream.
FullStream(snapshot) ==
    [mode |-> "full", snapshot |-> snapshot, base |-> None, token |-> NoToken]
\* Mutant: the incremental shape dispatched to the full one.
IncrementalAsFull(snapshot, base) ==
    [mode |-> "full", snapshot |-> snapshot, base |-> None, token |-> NoToken]
IncrementalStream(snapshot, base) ==
    [mode |-> "incremental", snapshot |-> snapshot, base |-> base, token |-> NoToken]
ResumeStream(token) ==
    [mode |-> "resume", snapshot |-> None, base |-> None, token |-> token]

\* The source snapshot a stream carries: the one it names, and for a resume
\* stream the one its token names (None when the source no longer has it).
StreamSnapshot(stream, source) ==
    IF stream.mode # "resume" THEN stream.snapshot
    ELSE LET hit == {s \in source.snaps : s.name = token2fqn(stream.token)}
         IN  IF hit = {} THEN None ELSE CHOOSE s \in hit : TRUE

\* The target's next creation transaction.
NextTxg(dataset) ==
    IF dataset.snaps = {} THEN 1 ELSE Max({s.createtxg : s \in dataset.snaps}) + 1

\* Mutant: a receive that takes a dry run for a real one.
RecvForReal(target, received, stream, dry_run, cleared) ==
    [target EXCEPT
        !.exists = TRUE,
        !.snaps = {s \in target.snaps : s.name # received.name}
                  \cup {Snapshot(received.name, received.guid, NextTxg(target))},
        !.token = IF stream.mode = "resume" /\ cleared THEN NoToken ELSE @]

\* A receive that succeeded: the dataset exists and holds the snapshot under
\* its name with the stream's guid and a createtxg of the target's own; a dry
\* run (zfs receive -n) changes nothing.  cleared: whether the backend drops
\* the resume token once the resumed receive is complete.
RecvEffect(target, received, stream, dry_run, cleared) ==
    IF dry_run THEN target
    ELSE [target EXCEPT
            !.exists = TRUE,
            !.snaps = {s \in target.snaps : s.name # received.name}
                      \cup {Snapshot(received.name, received.guid, NextTxg(target))},
            !.token = IF stream.mode = "resume" /\ cleared THEN NoToken ELSE @]

-----------------------------------------------------------------------------
(* Transfer engine *)

\* What send() did: how it ended, the collaborator calls it made in order,
\* the stream it handed to recv (if any) and the target it left behind.
SendResult(result, calls, stream, target) ==
    [result |-> result, calls |-> calls, stream |-> stream, target |-> target]

NoStream == [mode |-> "none", snapshot |-> None, base |-> None, token |-> NoToken]

\* The calls of stream.size() before recv: one for the log line of a full
\* send, a second one for the debug line of the other two shapes.
SizeCalls(stream) ==
    IF stream.mode = "full" THEN <<"stream.size">> ELSE <<"stream.size", "stream.size">>

\* The tail every transferring branch of send() shares: the size estimate
\* for the log line, then target.recv().  fail names the pipeline run that
\* fails: "none", "size" (the estimate) or "recv" (the transfer).
Transfer(stream, source, target, dry_run, fail, cleared, calls) ==
    LET received == StreamSnapshot(stream, source)
        built == calls \o <<"source.send">> \o SizeCalls(stream)
    IN  IF fail = "size"
        THEN SendResult("RuntimeError", built, NoStream, target)
        ELSE IF fail = "recv" \/ received = None
        THEN SendResult("SubprocessError", built \o <<"target.recv">>, stream, target)
        ELSE SendResult("ok", built \o <<"target.recv">>, stream,
                        RecvEffect(target, received, stream, dry_run, cleared))

\* Mutant: exists() that answers true for a dataset that is not there.
ExistsAlways(dataset) == TRUE
\* Mutant: resume_token() that never finds a token.
ResumeTokenNever(dataset) == NoToken

\* Dataset.exists() and Dataset.resume_token(), as the backend answers them.
exists(dataset) == dataset.exists
resume_token(dataset) == dataset.token

\* Mutant: the source check satisfied by a bookmark of the snapshot.
SourceHasReference(snapshot, source) ==
    snapshot.guid \in Guids(snapshots(source)) \cup Guids(bookmarks(source))
\* Mutant: the target check comparing createtxg, which the two systems count
\* each on its own, instead of guids.
TargetHasCreatetxg(snapshot, target) ==
    snapshot.createtxg \in {s.createtxg : s \in target.snaps}

\* The checks of send(), in the order it makes them.
SourceHasSnapshot(snapshot, source) == snapshot.guid \in Guids(snapshots(source))

TargetHasSnapshot(snapshot, target) == snapshot.guid \in Guids(snapshots(target))

send(snapshot, source, target, dry_run, fail, cleared) ==
    IF ~SourceHasSnapshot(snapshot, source)
    THEN SendResult("FileNotFoundError", <<"source.snapshots">>, NoStream, target)
    ELSE IF ~exists(target)
    THEN Transfer(FullStream(snapshot), source, target, dry_run, fail, cleared,
                  <<"source.snapshots", "target.exists">>)
    ELSE IF TargetHasSnapshot(snapshot, target)
    THEN SendResult("ok", <<"source.snapshots", "target.exists", "target.snapshots">>,
                    NoStream, target)
    ELSE IF resume_token(target) # NoToken
    THEN Transfer(ResumeStream(resume_token(target)), source, target, dry_run, fail,
                  cleared,
                  <<"source.snapshots", "target.exists", "target.snapshots",
                    "target.resume_token">>)
    ELSE LET base == ancestor(snapshot, snapshots(source), bookmarks(source),
                              snapshots(target))
             calls == <<"source.snapshots", "target.exists", "target.snapshots",
                        "target.resume_token", "ancestor">>
         IN  IF base # None
             THEN Transfer(IncrementalStream(snapshot, base), source, target, dry_run,
                           fail, cleared, calls)
             ELSE Transfer(FullStream(snapshot), source, target, dry_run, fail,
                           cleared, calls)

-----------------------------------------------------------------------------
(* Sync diff engine *)

\* re.compile(regex).match(name).  A regex is given by the set of snapshot
\* names it matches; MatchAll is the default ".*", which matches every name.
MatchAll == {NameOf(c) : c \in 0..(MaxSnap + 1)}
Match(regex, name) == name \in regex

\* next(s for s in source.snapshots() if s.guid == guid), None for
\* StopIteration.
RECURSIVE FirstWithGuid(_, _)
FirstWithGuid(seq, guid) ==
    IF seq = <<>> THEN None
    ELSE IF Head(seq).guid = guid THEN Head(seq)
    ELSE FirstWithGuid(Tail(seq), guid)

\* Mutant: missing without the guid test, every source snapshot.
SyncEverything(source, target) == snapshots(source)

\* missing: the source snapshots whose guid the target does not hold.
SyncMissing(source, target) ==
    LET absent(s) == s.guid \notin Guids(snapshots(target))
    IN  SelectSeq(snapshots(source), absent)

\* Mutant: latest taken from the target's listing, so that its createtxg is
\* the target's and not the source's.
SyncLatestOfTarget(source, target) ==
    LET t == snapshots(target)[Len(snapshots(target))]
    IN  IF FirstWithGuid(snapshots(source), t.guid) = None THEN None ELSE t

\* Mutant: latest looked up by the guid of the target's oldest snapshot.
SyncLatestOfOldest(source, target) ==
    FirstWithGuid(snapshots(source), snapshots(target)[1].guid)

\* latest: the source snapshot with the guid of the target's last snapshot.
SyncLatest(source, target) ==
    FirstWithGuid(snapshots(source), snapshots(target)[Len(snapshots(target))].guid)

\* Whether sync takes every source snapshot as missing.
SyncInitial(target) == ~exists(target) \/ Len(snapshots(target)) = 0

\* The candidate newer than latest.
SyncNewer(s, latest) == s.createtxg > latest.createtxg

\* to_sync before the regex filter.
SyncNewerMissing(source, target) ==
    IF SyncInitial(target) THEN snapshots(source)
    ELSE LET latest == SyncLatest(source, target)
             newer(s) == SyncNewer(s, latest)
         IN  SelectSeq(SyncMissing(source, target), newer)

\* Mutant: to_sync without the regex filter.
SyncUnfiltered(source, target, regex) == SyncNewerMissing(source, target)

\* to_sync: the snapshots sync hands to send, in this order.
SyncCandidates(source, target, regex) ==
    LET matches(s) == Match(regex, s.name)
    IN  SelectSeq(SyncNewerMissing(source, target), matches)

\* What sync() did: how it ended, to_sync, one SendResult per send() call it
\* made and the target it left behind.
SyncResult(result, to_sync, sends, target) ==
    [result |-> result, to_sync |-> to_sync, sends |-> sends, target |-> target]

\* Mutant: a loop that goes on with the next candidate after a send raised.
RECURSIVE SyncLoopKeepGoing(_, _, _, _, _, _, _, _, _)
SyncLoopKeepGoing(to_sync, i, source, target, dry_run, fail_at, fail, cleared, sends) ==
    IF i > Len(to_sync) THEN SyncResult("ok", to_sync, sends, target)
    ELSE LET r == send(to_sync[i], source, target, dry_run,
                       IF i = fail_at THEN fail ELSE "none", cleared)
         IN  SyncLoopKeepGoing(to_sync, i + 1, source, r.target, dry_run, fail_at,
                               fail, cleared, Append(sends, r))

\* The loop over to_sync: send i runs against the target send i-1 left; the
\* first send that raises ends the loop.  fail_at names the candidate whose
\* pipeline run fails (0: none), fail which run of it.
RECURSIVE SyncLoop(_, _, _, _, _, _, _, _, _)
SyncLoop(to_sync, i, source, target, dry_run, fail_at, fail, cleared, sends) ==
    IF i > Len(to_sync) THEN SyncResult("ok", to_sync, sends, target)
    ELSE LET r == send(to_sync[i], source, target, dry_run,
                       IF i = fail_at THEN fail ELSE "none", cleared)
         IN  IF r.result # "ok"
             THEN SyncResult(r.result, to_sync, Append(sends, r), r.target)
             ELSE SyncLoop(to_sync, i + 1, source, r.target, dry_run, fail_at, fail,
                           cleared, Append(sends, r))

sync(source, target, regex, dry_run, fail_at, fail, cleared) ==
    IF ~SyncInitial(target) /\ SyncLatest(source, target) = None
    THEN SyncResult("RuntimeError", <<>>, <<>>, target)
    ELSE SyncLoop(SyncCandidates(source, target, regex), 1, source, target, dry_run,
                  fail_at, fail, cleared, <<>>)

-----------------------------------------------------------------------------
(* Retention engine *)

\* One entry of the policy dict: a regex and the number of snapshots to keep.
Rule(regex, keep) == [regex |-> regex, keep |-> keep]

\* The snapshots of the listing whose name the rule's regex matches.
PruneMatches(listing, regex) ==
    LET matches(s) == Match(regex, s.name)
    IN  SelectSeq(listing, matches)

\* Mutant: the slice snapshots[-keep:] without the test keep > 0.
PruneRetainSlice(matched, keep) ==
    LET n == Len(matched)
    IN  IF keep > 0 THEN Range(SubSeq(matched, Max({1, n - keep + 1}), n))
        ELSE IF keep = 0 THEN Range(matched)
        ELSE Range(SubSeq(matched, 1 - keep, n))

\* retain: set(snapshots[-keep:]) if keep > 0 else {}.
PruneRetain(matched, keep) ==
    LET n == Len(matched)
    IN  IF keep > 0 THEN Range(SubSeq(matched, Max({1, n - keep + 1}), n)) ELSE {}

\* destroy: the names of the matched snapshots that are not retained.
PruneDestroy(matched, keep) ==
    LET gone(s) == s \notin PruneRetain(matched, keep)
        out == SelectSeq(matched, gone)
    IN  [i \in 1..Len(out) |-> out[i].name]

\* Mutant: obsolete taken from the first rule alone.
PruneObsoleteFirstRule(listing, policy) ==
    IF policy = <<>> THEN <<>>
    ELSE PruneDestroy(PruneMatches(listing, Head(policy).regex), Head(policy).keep)

\* obsolete: the destroy lists of the rules, one appended to the other.
RECURSIVE PruneObsolete(_, _)
PruneObsolete(listing, policy) ==
    IF policy = <<>> THEN <<>>
    ELSE PruneDestroy(PruneMatches(listing, Head(policy).regex), Head(policy).keep)
         \o PruneObsolete(listing, Tail(policy))

\* Mutant: a destroy that does not look at dry_run.
DestroyAlways(dataset, names, dry_run) ==
    [dataset EXCEPT !.snaps = {s \in @ : s.name \notin Range(names)}]

\* What zfs destroy leaves of the dataset: without the named snapshots, and
\* as it was with -n.
DestroyEffect(dataset, names, dry_run) ==
    IF dry_run THEN dataset
    ELSE [dataset EXCEPT !.snaps = {s \in @ : s.name \notin Range(names)}]

\* Dataset.destroy(): the backend issues one command, none for no names.
DestroyCalls(names, dry_run) ==
    <<"dataset.destroy">> \o
    (IF Len(names) = 0 THEN <<>>
     ELSE IF dry_run THEN <<"zfs destroy -n">> ELSE <<"zfs destroy">>)

\* What prune() did: the list it handed to destroy, the collaborator calls it
\* made in order and the dataset it left behind.
PruneResult(obsolete, calls, dataset) ==
    [obsolete |-> obsolete, calls |-> calls, dataset |-> dataset]

prune(dataset, policy, dry_run) ==
    LET obsolete == PruneObsolete(snapshots(dataset), policy)
        listed == [i \in 1..Len(policy) |-> "dataset.snapshots"]
    IN  PruneResult(obsolete, listed \o DestroyCalls(obsolete, dry_run),
                    DestroyEffect(dataset, obsolete, dry_run))

-----------------------------------------------------------------------------
(* Pipeline runner *)

\* What one stage of the chain does, whatever the runner does: what it has
\* written to its error stream by the time it closes it ("empty", "blank" for
\* whitespace only, "text"), its exit code, and whether it exits early, that
\* is without waiting for the end of its input.
Stage(stderr, code, early) == [stderr |-> stderr, code |-> code, early |-> early]

\* An exception of a task: the SubprocessError of a stage's error monitor or
\* the connection error of the forwarder writing to a stage.
TaskError(kind, stage) == [kind |-> kind, stage |-> stage]
NoError == TaskError("none", 0)

\* Mutant: a monitor that lets every error output pass.
StderrIgnored(err) == FALSE

\* stderr_watch: err.strip() is truthy.
StderrFails(err) == err = "text"

\* The exit-code runner's check for errors: some process of the chain has a
\* return code other than 0.
FluxFails(beh) == \E i \in 1..Len(beh) : beh[i].code # 0

\* Mutant: a reader that never sees the end of the output.
NeverEof(r) == FALSE

\* Mutant: a wait that does not look at the process.
ExitedOrNot(proc, i) == TRUE

\* await p.communicate() returns once the process has exited.
Exited(proc, i) == proc[i] = "exited"

\* The k-th line the last stage writes to its output: blank lines and lines
\* of text take turns.
Line(k) == IF k % 2 = 1 THEN <<"\n">> ELSE <<" ", "x", "\n">>

\* output after the reader has appended n lines.
Output(n) == [k \in 1..n |-> Line(k)]

\* "".join(output)
RECURSIVE Join(_)
Join(lines) ==
    IF lines = <<>> THEN <<>> ELSE Head(lines) \o Join(Tail(lines))

Whitespace(c) == c \in {" ", "\n"}

\* str.strip(): the text without the whitespace it starts and ends with.
RECURSIVE LStrip(_)
LStrip(text) ==
    IF text # <<>> /\ Whitespace(Head(text)) THEN LStrip(Tail(text)) ELSE text

RECURSIVE RStrip(_)
RStrip(text) ==
    IF text # <<>> /\ Whitespace(text[Len(text)])
    THEN RStrip(SubSeq(text, 1, Len(text) - 1))
    ELSE text

Strip(text) == RStrip(LStrip(text))

\* Texts are sequences of tokens: "nsd" stands for the phrase "dataset does
\* not exist", "dex" for a phrase " destination '...' exists", "\n" for a
\* line break, anything else for other words.
Contains(text, token) == \E k \in 1..Len(text) : text[k] = token

\* re.match(".* destination '.*' exists", text): the match starts at the
\* start of the text and "." matches no line break, so the phrase is found
\* in the first line only.
MatchesDestinationExists(text) ==
    \E k \in 1..Len(text) :
        /\ text[k] = "dex"
        /\ \A j \in 1..(k - 1) : text[j] # "\n"

\* An exception as the caller of run() gets it.
Exception(class, message, cmd) == [class |-> class, message |-> message, cmd |-> cmd]
NoException == Exception("none", <<>>, <<>>)

\* SubprocessError.__str__
Str(e) == <<"Command">> \o e.cmd \o <<"failed:">> \o e.message

\* The loop that raises: the first exception of the list, a SubprocessError
\* as the error its rendering stands for.
Raise(exceptions) ==
    LET e == exceptions[1]
    IN  IF e.class = "SubprocessError" /\ Contains(Str(e), "nsd")
        THEN Exception("NoSuchDatasetError", Str(e), e.cmd)
        ELSE IF e.class = "SubprocessError" /\ MatchesDestinationExists(Str(e))
        THEN Exception("DestinationFilesystemExists", Str(e), e.cmd)
        ELSE e

\* The command of the i-th stage.
StageCmd(i) == <<"zfs", ToString(i)>>

\* What stands in the error stream of the i-th stage when it closes it; the
\* first stage, the producer, reports that its dataset does not exist.
StageText(stderr, i) ==
    IF stderr = "text" THEN (IF i = 1 THEN <<"w", "nsd", "\n">> ELSE <<"w", "\n">>)
    ELSE IF stderr = "blank" THEN <<"\n">>
    ELSE <<>>

\* No invocation under way.  written counts the lines the last stage has
\* written to its output, nread those the reader has appended to output.
RunIdle ==
    [phase |-> "idle", n |-> 0, beh |-> <<>>, proc |-> <<>>, eof |-> <<>>,
     watch |-> <<>>, fwd |-> <<>>, reader |-> "pending", term |-> <<>>,
     killed |-> {}, errors |-> <<>>, written |-> 0, nread |-> 0,
     outcome |-> "none", error |-> NoError, result |-> <<>>,
     cmds |-> <<>>, texts |-> <<>>, raised |-> NoException,
     pair |-> 0, want |-> 0, out |-> 0, taken |-> 0, chunk |-> <<>>,
     inp |-> <<>>, eofs |-> 0]

\* The exception object of a task's error: the SubprocessError of a monitor
\* holds the error output and the command of its stage.
ErrorOf(r, e) ==
    IF e.kind = "SubprocessError"
    THEN Exception("SubprocessError", r.texts[e.stage], r.cmds[e.stage])
    ELSE Exception(e.kind, <<>>, <<>>)

\* eg.exceptions
Exceptions(r) == [k \in 1..Len(r.errors) |-> ErrorOf(r, r.errors[k])]

\* stream_reader: readline() returns the empty line, which is at the end of
\* the last stage's output once every line before it has been read.
AtEof(r) == r.proc[r.n] = "exited" /\ r.nread = r.written

\* main() after it has created the processes of the chain and entered the
\* task group: one error monitor per process, one forwarder per adjacent
\* pair, one reader of the last process's output.
RunStart(beh) ==
    [RunIdle EXCEPT
        !.phase = "group", !.n = Len(beh), !.beh = beh,
        !.proc = [i \in 1..Len(beh) |-> "running"],
        !.eof = [i \in 1..Len(beh) |-> FALSE],
        !.watch = [i \in 1..Len(beh) |-> "pending"],
        !.fwd = [i \in 1..(Len(beh) - 1) |-> "pending"],
        !.term = [i \in 1..Len(beh) |-> FALSE],
        !.cmds = [i \in 1..Len(beh) |-> StageCmd(i)],
        !.texts = [i \in 1..Len(beh) |-> StageText(beh[i].stderr, i)]]

\* The first k bytes a stage writes to its output: byte j is j.
Bytes(k) == [j \in 1..k |-> j]

\* Mutant: a write that puts the chunk in front of what was written before.
WriteFirst(buffer, chunk) == chunk \o buffer

\* chunk = await src.read(4096): what the pipe holds, up to MaxChunk bytes.
ReadChunk(out, taken) ==
    SubSeq(Bytes(out), taken + 1,
           IF out - taken > MaxChunk THEN taken + MaxChunk ELSE out)

\* dest.write(chunk)
DestWrite(buffer, chunk) == buffer \o chunk

\* main() about to create the processes of the chain.
RunCreate(beh) == [RunIdle EXCEPT !.phase = "spawn", !.n = Len(beh), !.beh = beh]

\* create_subprocess_exec raised for the k-th command: the exception leaves
\* main() from the loop that creates the processes, outside the try block;
\* the processes created before it stay as they are.
SpawnFailure(beh, k) ==
    [RunStart(beh) EXCEPT
        !.phase = "end",
        !.proc = [i \in 1..Len(beh) |-> IF i < k THEN "running" ELSE "none"],
        !.outcome = "raised",
        !.error = TaskError("OSError", k),
        !.raised = Exception("OSError", <<>>, <<>>)]

\* The tasks of the group that have not finished.
PendingTasks(r) ==
    \/ \E i \in 1..r.n : r.watch[i] = "pending"
    \/ \E i \in 1..(r.n - 1) : r.fwd[i] = "pending"
    \/ r.reader = "pending"

\* Cancellation of what is still pending in a list of tasks.
Cancelled(tasks) ==
    [i \in DOMAIN tasks |-> IF tasks[i] = "pending" THEN "cancelled" ELSE tasks[i]]

-----------------------------------------------------------------------------
(* ZFS backend handle *)

\* The reads of a handle that are memoized.
Reads == {"snapshots", "bookmarks", "resume_token"}

NotCached == [cached |-> FALSE, value |-> 0]
Hit(value) == [cached |-> TRUE, value |-> value]

\* Mutant: a clearing that forgets the snapshot listing only.
CacheClearSnapshots(cache) == [cache EXCEPT !["snapshots"] = NotCached]

\* ZfsBackend.cache_clear: the three caches are emptied.
cache_clear(cache) == [read \in Reads |-> NotCached]

\* Mutant: a memo that keeps nothing.
CacheNothing(cache, read, value) == cache

\* functools.cache: the value the wrapped method returned is kept.
CacheStore(cache, read, value) == [cache EXCEPT ![read] = Hit(value)]

Zeros == [read \in Reads |-> 0]

\* A fresh handle on a dataset.  The dataset is what the zfs commands find:
\* whether it exists, the numbers of its snapshots and bookmarks, whether it
\* holds a resume token (1) or not (0).  cmds, calls and raises count, per
\* read and since the last mutating call, the commands run, the calls made
\* and the calls that raised; dropped holds the reads whose memo the last
\* mutating call emptied; ran is what became of the command the last call
\* ran ("none": it ran no command).
Handle(there, snaps, bms, token) ==
    [exists |-> there, snaps |-> snaps, bms |-> bms, token |-> token,
     cache |-> [read \in Reads |-> NotCached],
     cmds |-> Zeros, calls |-> Zeros, raises |-> Zeros,
     dropped |-> {}, mutated |-> "none", mutation |-> "ok",
     op |-> "none", ran |-> "none", result |-> "ok", value |-> 0, steps |-> 0]

NoHandle == Handle(FALSE, 0, 0, 0)

\* What a listing of the dataset, or the query for its token, gives.
Truth(h, read) ==
    CASE read = "snapshots" -> h.snaps
      [] read = "bookmarks" -> h.bms
      [] OTHER -> h.token

\* What may become of a command that names the dataset: the runner returns
\* its output, or raises for the text the command wrote, the error for a
\* missing dataset where the dataset is missing.
Outcomes(h) ==
    IF h.exists THEN {"ok", "SubprocessError"}
    ELSE {"NoSuchDatasetError", "SubprocessError"}

\* ZfsBackend.snapshots / bookmarks / resume_token behind functools.cache: a
\* value kept is returned, else the command is run and its value kept; an
\* exception is kept nowhere.
CachedRead(h, read, outcome) ==
    LET called == [h EXCEPT !.op = read, !.calls[read] = @ + 1, !.steps = @ + 1]
    IN  IF h.cache[read].cached
        THEN [called EXCEPT !.ran = "none", !.result = "ok",
                            !.value = h.cache[read].value]
        ELSE IF outcome = "ok"
        THEN [called EXCEPT !.ran = "ok", !.result = "ok",
                            !.cmds[read] = @ + 1,
                            !.value = Truth(h, read),
                            !.cache = CacheStore(@, read, Truth(h, read))]
        ELSE [called EXCEPT !.ran = outcome, !.result = outcome,
                            !.cmds[read] = @ + 1, !.raises[read] = @ + 1,
                            !.value = 0]

\* Mutant: an exists() that takes every failure for a missing dataset.
ExistsCatchAll(r) == "ok"

\* ZfsBackend.exists: the error for a missing dataset is caught, any other
\* one goes on to the caller.
ExistsResult(r) ==
    IF r.result = "NoSuchDatasetError" THEN "ok" ELSE r.result

\* ZfsBackend.exists: True (1) after snapshots() returned, False (0) after it
\* raised the error for a missing dataset.
Exists(h, outcome) ==
    LET r == CachedRead(h, "snapshots", outcome)
    IN  [r EXCEPT !.op = "exists",
                  !.result = ExistsResult(r),
                  !.value = IF r.result = "ok" THEN 1 ELSE 0]

\* A mutating method of the handle: it empties the caches, then runs its
\* command, which leaves the dataset as given.
Mutation(h, op, outcome, there, snaps, bms, token) ==
    [h EXCEPT
        !.exists = there, !.snaps = snaps, !.bms = bms, !.token = token,
        !.cache = cache_clear(@),
        !.cmds = Zeros, !.calls = Zeros, !.raises = Zeros,
        !.dropped = {read \in Reads : h.cache[read].cached},
        !.mutated = op, !.mutation = outcome,
        !.op = op, !.ran = outcome, !.result = outcome, !.value = 0,
        !.steps = @ + 1]

-----------------------------------------------------------------------------
(* ZFS stream and receive *)

\* The command of a stream: zfs send of a snapshot, of a snapshot from a
\* base, or of a resume token.
StreamArgs(mode) ==
    IF mode = "full" THEN <<"zfs", "send", "pool/A@s2">>
    ELSE IF mode = "incremental"
    THEN <<"zfs", "send", "-i", "pool/A@s1", "pool/A@s2">>
    ELSE <<"zfs", "send", "-t", "token">>

\* The command size() runs: that of the stream as a verbose dry run.
SizeArgs(args) == args \o <<"-P", "-n", "-v">>

\* One line of the output of the dry run: a word and, where num >= 0, a
\* number after it.
OutLine(key, num) == [key |-> key, num |-> num]

\* What the runner makes of the dry run: it raises, or returns the stripped
\* output - nothing, the report of a full or of a resumed send ending with
\* the size line, a size line without a number, a line after the size line.
SizeRuns ==
    {[raised |-> TRUE, lines |-> <<>>],
     [raised |-> FALSE, lines |-> <<>>],
     [raised |-> FALSE, lines |-> <<OutLine("full", 7), OutLine("size", 7)>>],
     [raised |-> FALSE,
      lines |-> <<OutLine("toname", 0 - 1), OutLine("full", 9), OutLine("size", 9)>>],
     [raised |-> FALSE, lines |-> <<OutLine("size", 0 - 1)>>],
     [raised |-> FALSE, lines |-> <<OutLine("size", 7), OutLine("warning", 0 - 1)>>]}

\* re.match(r"size\s*(\d+)$", output.split("\n")[-1].strip()): the number of
\* the last line if that is a size line with a number, -1 for no match.
ParseSize(lines) ==
    IF lines = <<>> THEN 0 - 1
    ELSE IF lines[Len(lines)].key = "size" THEN lines[Len(lines)].num
    ELSE 0 - 1

\* Mutant: a memo of size() that keeps nothing.
SizeForget(cache, value) == NotCached

\* functools.cache around size(): the value it returned is kept.
SizeStore(cache, value) == Hit(value)

\* A stream in the hands of send() and recv(): pc is where the transfer
\* stands, calls and dryruns count the calls of size() and the dry runs it
\* made, fails the calls that raised, chain is what recv() handed to the
\* runner in how many calls (runs), changed whether the target received.
ZfsStream(mode, pipes, dry_run) ==
    [pc |-> "info", mode |-> mode, args |-> StreamArgs(mode), pipes |-> pipes,
     dry_run |-> dry_run, cache |-> NotCached, calls |-> 0, dryruns |-> 0,
     fails |-> 0, result |-> "none", formatted |-> <<>>, chain |-> <<>>,
     runs |-> 0, sized |-> FALSE, changed |-> FALSE]

\* ZfsStream.size(): the memoized estimate, or a dry run whose output is
\* parsed; a dry run that raises or cannot be parsed raises to the caller.
size(st, r) ==
    LET called == [st EXCEPT !.calls = @ + 1]
    IN  IF st.cache.cached THEN [called EXCEPT !.result = "ok"]
        ELSE IF r.raised
        THEN [called EXCEPT !.dryruns = @ + 1, !.fails = @ + 1,
                            !.result = "SubprocessError"]
        ELSE IF ParseSize(r.lines) < 0
        THEN [called EXCEPT !.dryruns = @ + 1, !.fails = @ + 1,
                            !.result = "RuntimeError"]
        ELSE [called EXCEPT !.dryruns = @ + 1, !.result = "ok",
                            !.cache = SizeStore(@, ParseSize(r.lines))]

\* The filter chains a caller gives: none, pv told the size, two filters
\* with the size in two arguments, and two whose argument holds braces of
\* its own, doubled or not.
FilterChains ==
    {<<>>,
     <<<<"pv", "-s", "{size}">>>>,
     <<<<"zstd">>, <<"pv", "--size={size}", "-N", "{size}">>>>,
     <<<<"awk", "{{print}}">>>>,
     <<<<"awk", "{print}">>>>}

\* arg.format(size=n): the size field is replaced, doubled braces become
\* single ones, and a field of another name raises KeyError.
Format(arg, n) ==
    IF arg = "{size}" THEN ToString(n)
    ELSE IF arg = "--size={size}" THEN "--size=" \o ToString(n)
    ELSE IF arg = "{{print}}" THEN "{print}"
    ELSE IF arg = "{print}" THEN "KeyError"
    ELSE arg

\* Whether formatting an argument of the pipes raises.
FormatRaises(pipes) ==
    \E i \in 1..Len(pipes) : \E j \in 1..Len(pipes[i]) : pipes[i][j] = "{print}"

\* pipes with every argument formatted.
FormatPipes(pipes, n) ==
    [i \in 1..Len(pipes) |-> [j \in 1..Len(pipes[i]) |-> Format(pipes[i][j], n)]]

\* The number of arguments of the pipes: one call of size() each.
RECURSIVE ArgCount(_)
ArgCount(pipes) ==
    IF pipes = <<>> THEN 0 ELSE Len(Head(pipes)) + ArgCount(Tail(pipes))

\* The receive command of the target.
RecvArgs(dry_run) ==
    <<"zfs", "receive", "pool/B">> \o (IF dry_run THEN <<"-n", "-v">> ELSE <<>>)

-----------------------------------------------------------------------------
(* The state machine *)

Source == Dataset(TRUE, src_snaps, src_bms, NoToken)
Target == Dataset(tgt_exists, tgt_snaps, {}, tgt_token)

Idle ==
    [op |-> "none", snapshot |-> None, regex |-> MatchAll, dry_run |-> FALSE,
     listing |-> "desc", result |-> "ok", calls |-> <<>>, stream |-> NoStream,
     base |-> None, to_sync |-> <<>>, sends |-> <<>>,
     policy |-> <<>>, obsolete |-> <<>>, listed |-> <<>>, runs |-> <<>>,
     before |-> Dataset(FALSE, {}, {}, NoToken)]

\* The source after k creation transactions: the state of txg c is held by a
\* snapshot, by a bookmark (its snapshot destroyed) or by both.
SourceShapes(k) == [1..k -> {"snapshot", "bookmark", "both"}]

\* The target's snapshots: the states q[1], q[2], ... received in this order;
\* state 0 is one the source never had.  An outstanding resume token names a
\* state whose receive was interrupted, so one the target does not hold.
TargetOrders(k) ==
    UNION {{q \in [1..n -> 0..k] : \A i, j \in 1..n : i # j => q[i] # q[j]} :
           n \in 0..MaxTgt}

Init ==
    \E k \in 0..MaxSnap :
      \E shape \in SourceShapes(k), q \in TargetOrders(k) :
        /\ src_snaps = {Snapshot(NameOf(c), GuidOf(c), c) :
                          c \in {d \in 1..k : shape[d] # "bookmark"}}
        /\ src_bms = {Bookmark(NameOf(c), GuidOf(c), c) :
                          c \in {d \in 1..k : shape[d] # "snapshot"}}
        /\ tgt_snaps = {Snapshot(NameOf(q[i]), GuidOf(q[i]), i) : i \in 1..Len(q)}
        /\ \/ /\ tgt_exists = TRUE
              /\ tgt_token \in {NoToken} \cup
                    {fqn2token(NameOf(c)) : c \in 1..k \ Range(q)}
           \/ /\ tgt_exists = FALSE
              /\ q = <<>>
              /\ tgt_token = NoToken
        /\ last = Idle
        /\ run = RunIdle
        /\ zfs = NoHandle

\* The snapshots a caller may ask for: those of the source, one the source
\* has only a bookmark of, and one it has never had, newer than all it has.
SourceTxg == Max({0} \cup {e.createtxg : e \in src_snaps \cup src_bms})
Requests ==
    {Snapshot(NameOf(c), GuidOf(c), c) : c \in 1..(SourceTxg + 1)}

\* The regexes a caller may give: the default and every choice of names.
Regexes ==
    LET names == {s.name : s \in src_snaps}
    IN  {MatchAll} \cup (SUBSET names \ {names})

\* The pipeline runs of one send() that may fail: none where it builds no
\* stream.
SendFails(snapshot) ==
    IF SourceHasSnapshot(snapshot, Source)
       /\ (~exists(Target) \/ ~TargetHasSnapshot(snapshot, Target))
    THEN {"none", "size", "recv"}
    ELSE {"none"}

\* The pipeline run that fails in the send of candidate fail_at of a sync.
SyncFails(fail_at) == IF fail_at = 0 THEN {"none"} ELSE {"size", "recv"}

\* Whether the backend drops the token after a resumed receive: a choice
\* only where a receive can consume one.
Clears(dry_run) == IF tgt_token = NoToken \/ dry_run THEN {FALSE} ELSE BOOLEAN

\* A caller evaluates ancestor(snapshot, source, target).
Ancestor ==
    /\ last.op = "none"
    /\ \E snapshot \in Requests, ord \in {"asc", "desc"} :
         last' = [Idle EXCEPT
                    !.op = "ancestor", !.snapshot = snapshot, !.listing = ord,
                    !.before = Target,
                    !.base = ancestor(snapshot,
                                      DatasetListing(BackendListing(src_snaps, ord)),
                                      DatasetListing(BackendListing(src_bms, ord)),
                                      DatasetListing(BackendListing(tgt_snaps, ord)))]
    /\ UNCHANGED <<src_snaps, src_bms, tgt_exists, tgt_snaps, tgt_token, run, zfs>>

\* A caller runs send(snapshot, source, target, dry_run=dry_run).
Send ==
    /\ last.op = "none"
    /\ \E snapshot \in Requests, dry_run \in BOOLEAN :
       \E fail \in SendFails(snapshot), cleared \in Clears(dry_run) :
         \E r \in {send(snapshot, Source, Target, dry_run, fail, cleared)} :
             /\ last' = [Idle EXCEPT
                           !.op = "send", !.snapshot = snapshot, !.dry_run = dry_run,
                           !.before = Target,
                           !.result = r.result, !.calls = r.calls,
                           !.stream = r.stream, !.base = r.stream.base]
             /\ tgt_exists' = r.target.exists
             /\ tgt_snaps' = r.target.snaps
             /\ tgt_token' = r.target.token
    /\ UNCHANGED <<src_snaps, src_bms, run, zfs>>

\* A caller runs sync(source, target, regex=regex, dry_run=dry_run).
Sync ==
    /\ last.op = "none"
    /\ \E regex \in Regexes, dry_run \in BOOLEAN :
       \E cleared \in Clears(dry_run),
          fail_at \in 0..Len(SyncCandidates(Source, Target, regex)) :
         \E fail \in SyncFails(fail_at) :
         \E r \in {sync(Source, Target, regex, dry_run, fail_at, fail, cleared)} :
             /\ last' = [Idle EXCEPT
                           !.op = "sync", !.regex = regex, !.dry_run = dry_run,
                           !.before = Target,
                           !.result = r.result, !.to_sync = r.to_sync,
                           !.sends = r.sends]
             /\ tgt_exists' = r.target.exists
             /\ tgt_snaps' = r.target.snaps
             /\ tgt_token' = r.target.token
    /\ UNCHANGED <<src_snaps, src_bms, run, zfs>>

\* A dataset to prune: the snapshots of k creation transactions.
InitPrune ==
    \E k \in 0..MaxSnap :
        /\ src_snaps = {Snapshot(NameOf(c), GuidOf(c), c) : c \in 1..k}
        /\ src_bms = {}
        /\ tgt_exists = FALSE
        /\ tgt_snaps = {}
        /\ tgt_token = NoToken
        /\ last = Idle
        /\ run = RunIdle
        /\ zfs = NoHandle

\* The policies a caller may give: up to MaxRules rules, each a regex (a
\* choice of names) and a keep count, which may be zero or negative.
Rules ==
    {Rule(regex, keep) :
        regex \in SUBSET {s.name : s \in src_snaps}, keep \in (0 - 1)..MaxKeep}
Policies == UNION {[1..n -> Rules] : n \in 0..MaxRules}

\* A caller runs prune(dataset, policy, dry_run=dry_run) on the source.
Prune ==
    /\ last.op = "none"
    /\ \E policy \in Policies, dry_run \in BOOLEAN :
         \E r \in {prune(Source, policy, dry_run)} :
             /\ last' = [Idle EXCEPT
                           !.op = "prune", !.policy = policy, !.dry_run = dry_run,
                           !.before = Source,
                           !.calls = r.calls, !.obsolete = r.obsolete]
             /\ src_snaps' = r.dataset.snaps
    /\ UNCHANGED <<src_bms, tgt_exists, tgt_snaps, tgt_token, run, zfs>>

\* The orders a backend may list in.
Orders == {"asc", "desc", "rot"}

\* What a caller sees of send(), sync() and prune(): how they ended, what
\* they called and built, and the dataset they left.
SendOutcome(r) ==
    [result |-> r.result, calls |-> r.calls, stream |-> r.stream,
     exists |-> r.target.exists, snaps |-> r.target.snaps, token |-> r.target.token]

SyncOutcome(r) ==
    [result |-> r.result, to_sync |-> r.to_sync,
     sends |-> [i \in 1..Len(r.sends) |-> SendOutcome(r.sends[i])],
     exists |-> r.target.exists, snaps |-> r.target.snaps, token |-> r.target.token]

PruneOutcome(r) ==
    [obsolete |-> r.obsolete, calls |-> r.calls, snaps |-> r.dataset.snaps]

\* The three listings the operations read, from backends that list in ord.
Listings(ord) ==
    <<snapshots(Listed(Source, ord)), bookmarks(Listed(Source, ord)),
      snapshots(Listed(Target, ord))>>

\* The operations run on backends that list in an order of their own; runs
\* holds what the operation did there and what it does on the same datasets
\* behind backends that list in the usual order.
\* ancestor() reads no token, so it is evaluated where there is none.
AncestorListed ==
    /\ last.op = "none"
    /\ tgt_token = NoToken
    /\ \E snapshot \in Requests, ord \in Orders \ {ListingOrder} :
         last' = [Idle EXCEPT
                    !.op = "ancestor", !.snapshot = snapshot, !.listing = ord,
                    !.before = Target, !.listed = Listings(ord),
                    !.runs = <<ancestor(snapshot, Listings(ord)[1], Listings(ord)[2],
                                        Listings(ord)[3]),
                               ancestor(snapshot, snapshots(Source), bookmarks(Source),
                                        snapshots(Target))>>]
    /\ UNCHANGED <<src_snaps, src_bms, tgt_exists, tgt_snaps, tgt_token, run, zfs>>

SendListed ==
    /\ last.op = "none"
    /\ \E snapshot \in Requests, dry_run \in BOOLEAN, ord \in Orders \ {ListingOrder} :
       \E fail \in SendFails(snapshot), cleared \in Clears(dry_run) :
         \E r \in {send(snapshot, Listed(Source, ord), Listed(Target, ord),
                         dry_run, fail, cleared)} :
             /\ last' = [Idle EXCEPT
                           !.op = "send", !.snapshot = snapshot, !.dry_run = dry_run,
                           !.listing = ord, !.before = Target,
                           !.listed = Listings(ord),
                           !.runs = <<SendOutcome(r),
                                      SendOutcome(send(snapshot, Source, Target,
                                                       dry_run, fail, cleared))>>]
             /\ tgt_exists' = r.target.exists
             /\ tgt_snaps' = r.target.snaps
             /\ tgt_token' = r.target.token
    /\ UNCHANGED <<src_snaps, src_bms, run, zfs>>

\* sync() with no transfer left to resume and whose pipelines all run to the
\* end: resuming and failing are SendListed's.
SyncListed ==
    /\ last.op = "none"
    /\ tgt_token = NoToken
    /\ \E regex \in Regexes, dry_run \in BOOLEAN, ord \in Orders \ {ListingOrder} :
       \E cleared \in Clears(dry_run), fail_at \in {0}, fail \in SyncFails(0) :
         \E r \in {sync(Listed(Source, ord), Listed(Target, ord), regex, dry_run,
                         fail_at, fail, cleared)} :
             /\ last' = [Idle EXCEPT
                           !.op = "sync", !.regex = regex, !.dry_run = dry_run,
                           !.listing = ord, !.before = Target,
                           !.listed = Listings(ord),
                           !.runs = <<SyncOutcome(r),
                                      SyncOutcome(sync(Source, Target, regex, dry_run,
                                                       fail_at, fail, cleared))>>]
             /\ tgt_exists' = r.target.exists
             /\ tgt_snaps' = r.target.snaps
             /\ tgt_token' = r.target.token
    /\ UNCHANGED <<src_snaps, src_bms, run, zfs>>

\* prune() of the target, whose names and creation order differ, under one
\* rule: the rules of a policy are evaluated one by one on the same listing.
\* It reads the target's snapshots only, so it is run where the source has no
\* bookmark and the target no token.
PruneListed ==
    /\ last.op = "none"
    /\ src_bms = {}
    /\ tgt_token = NoToken
    /\ \E regex \in SUBSET {s.name : s \in tgt_snaps}, keep \in (0 - 1)..MaxKeep,
          dry_run \in BOOLEAN, ord \in Orders \ {ListingOrder} :
         \E r \in {prune(Listed(Target, ord), <<Rule(regex, keep)>>, dry_run)} :
             /\ last' = [Idle EXCEPT
                           !.op = "prune", !.policy = <<Rule(regex, keep)>>,
                           !.dry_run = dry_run,
                           !.listing = ord, !.before = Target,
                           !.listed = Listings(ord),
                           !.runs = <<PruneOutcome(r),
                                      PruneOutcome(prune(Target, <<Rule(regex, keep)>>,
                                                         dry_run))>>]
             /\ tgt_snaps' = r.dataset.snaps
    /\ UNCHANGED <<src_snaps, src_bms, tgt_exists, tgt_token, run, zfs>>

OperationsListed == AncestorListed \/ SendListed \/ SyncListed \/ PruneListed

\* The behaviours of a stage: it runs to the end of its input and exits
\* with 0, silently, with a blank error output or with a diagnostic text; it
\* dies early with 1, after a text or without a word.
StageBehaviours ==
    {Stage("empty", 0, FALSE), Stage("blank", 0, FALSE), Stage("text", 0, FALSE),
     Stage("text", 1, TRUE), Stage("empty", 1, TRUE)}

\* run() called with a chain of 1..MaxStages commands.
InitRunner ==
    /\ src_snaps = {}
    /\ src_bms = {}
    /\ tgt_exists = FALSE
    /\ tgt_snaps = {}
    /\ tgt_token = NoToken
    /\ last = Idle
    /\ zfs = NoHandle
    /\ \E n \in 1..MaxStages : \E beh \in [1..n -> StageBehaviours] :
          run = RunCreate(beh)

\* The stages of the chains whose output is followed: silent ones, one that
\* ends with a diagnostic text, one that dies early.
OutputBehaviours ==
    {Stage("empty", 0, FALSE), Stage("text", 0, FALSE), Stage("empty", 1, TRUE)}

\* run() called with a chain whose last stage writes up to MaxLines lines.
InitOutput ==
    /\ src_snaps = {}
    /\ src_bms = {}
    /\ tgt_exists = FALSE
    /\ tgt_snaps = {}
    /\ tgt_token = NoToken
    /\ last = Idle
    /\ zfs = NoHandle
    /\ \E n \in 1..MaxStages : \E beh \in [1..n -> OutputBehaviours] :
          run = RunCreate(beh)

\* run() called with a chain of two or more stages; the output of one stage
\* but the last, of up to MaxBytes bytes, is followed into the next stage.
\* The two stages of the pair behave in any way, the others are silent.
InitForward ==
    /\ src_snaps = {}
    /\ src_bms = {}
    /\ tgt_exists = FALSE
    /\ tgt_snaps = {}
    /\ tgt_token = NoToken
    /\ last = Idle
    /\ zfs = NoHandle
    /\ \E n \in 2..MaxStages, up \in OutputBehaviours, down \in OutputBehaviours :
       \E pair \in 1..(n - 1), want \in 0..MaxBytes :
          run = [RunCreate([i \in 1..n |->
                              IF i = pair THEN up
                              ELSE IF i = pair + 1 THEN down
                              ELSE Stage("empty", 0, FALSE)])
                   EXCEPT !.pair = pair, !.want = want]

\* The tokens of commands and error texts.
Tokens == {"w", "nsd", "dex", "\n"}

\* The error texts of up to MaxMsg tokens a monitor raises for: those that
\* are not all whitespace.
Messages ==
    {m \in UNION {[1..k -> Tokens] : k \in 1..MaxMsg} : \E k \in 1..Len(m) : m[k] # "\n"}

\* Command lines: a plain one, and two with an argument that holds one of
\* the phrases.
Commands == {<<"zfs">>, <<"pv", "nsd">>, <<"pv", "dex">>}

\* main() after the task group and the wait, with the exceptions of the
\* group in hand: those of one or two stages' monitors, in either order, or
\* that of the forwarder.
InitClassify ==
    /\ src_snaps = {}
    /\ src_bms = {}
    /\ tgt_exists = FALSE
    /\ tgt_snaps = {}
    /\ tgt_token = NoToken
    /\ last = Idle
    /\ zfs = NoHandle
    /\ \E texts \in [1..2 -> Messages], cmds \in [1..2 -> Commands] :
       \E errors \in {<<TaskError("SubprocessError", 1)>>,
                      <<TaskError("SubprocessError", 2)>>,
                      <<TaskError("SubprocessError", 1), TaskError("SubprocessError", 2)>>,
                      <<TaskError("SubprocessError", 2), TaskError("SubprocessError", 1)>>,
                      <<TaskError("ConnectionResetError", 2)>>,
                      <<TaskError("ConnectionResetError", 2), TaskError("SubprocessError", 2)>>} :
          run = [RunStart(<<Stage("text", 1, TRUE), Stage("text", 1, TRUE)>>) EXCEPT
                    !.phase = "wait",
                    !.proc = <<"exited", "exited">>,
                    !.term = <<TRUE, TRUE>>,
                    !.watch = [i \in 1..2 |->
                                  IF \E k \in 1..Len(errors) :
                                        errors[k] = TaskError("SubprocessError", i)
                                  THEN "raised" ELSE "cancelled"],
                    !.fwd = <<IF errors[1].kind = "ConnectionResetError"
                              THEN "raised" ELSE "cancelled">>,
                    !.reader = "cancelled",
                    !.errors = errors,
                    !.cmds = cmds,
                    !.texts = texts]

Datasets == <<src_snaps, src_bms, tgt_exists, tgt_snaps, tgt_token, last, zfs>>

\* The processes are created one command after the other; main() enters the
\* task group once every process exists, and is left by the exception of the
\* first command that cannot be started.
Spawn ==
    /\ run.phase = "spawn"
    /\ \/ run' = [RunStart(run.beh) EXCEPT !.pair = run.pair, !.want = run.want]
       \/ \E k \in 1..run.n :
            run' = [SpawnFailure(run.beh, k) EXCEPT !.pair = run.pair,
                                                    !.want = run.want]
    /\ UNCHANGED Datasets

\* A process exits: the first one when it is done, a later one at the end of
\* its input, one that dies early at any time, any one once terminated. A
\* stage whose output is followed is done once it has written all of it.
ProcExit ==
    /\ run.phase \in {"group", "wait"}
    /\ \E i \in 1..run.n :
         /\ run.proc[i] = "running"
         /\ i = 1 \/ run.eof[i] \/ run.beh[i].early \/ run.term[i]
         /\ i = run.pair => run.out = run.want \/ run.beh[i].early \/ run.term[i]
         /\ run' = [run EXCEPT !.proc[i] = "exited"]
    /\ UNCHANGED Datasets

\* stderr_watch(process, cmd): the read returns at the end of the error
\* stream; the task raises SubprocessError if anything but whitespace came.
StderrWatch ==
    /\ run.phase = "group"
    /\ \E i \in 1..run.n :
         /\ run.watch[i] = "pending"
         /\ run.proc[i] = "exited"
         /\ run' = IF StderrFails(run.beh[i].stderr)
                   THEN [run EXCEPT !.watch[i] = "raised",
                                    !.errors = Append(@, TaskError("SubprocessError", i))]
                   ELSE [run EXCEPT !.watch[i] = "done"]
    /\ UNCHANGED Datasets

\* forward(prev.stdout, next.stdin) at the end of the upstream output: it
\* closes the downstream input; where the downstream process is gone the
\* write side may be lost, and drain() raises or does not.
ForwardEof ==
    /\ run.phase = "group"
    /\ \E i \in 1..(run.n - 1) :
         /\ run.fwd[i] = "pending"
         /\ run.proc[i] = "exited"
         /\ i = run.pair => run.chunk = <<>> /\ run.taken = run.out
         /\ \/ run' = [run EXCEPT !.fwd[i] = "done", !.eof[i + 1] = TRUE,
                                   !.eofs = IF i = run.pair THEN @ + 1 ELSE @]
            \/ /\ run.proc[i + 1] = "exited"
               /\ run' = [run EXCEPT
                            !.fwd[i] = "raised",
                            !.errors = Append(@, TaskError("ConnectionResetError", i + 1))]
    /\ UNCHANGED Datasets

\* forward() with a chunk in hand for a downstream process that is gone:
\* dest.drain() raises.
ForwardBroken ==
    /\ run.phase = "group"
    /\ \E i \in 1..(run.n - 1) :
         /\ run.fwd[i] = "pending"
         /\ run.proc[i] = "running"
         /\ run.proc[i + 1] = "exited"
         /\ run' = [run EXCEPT
                      !.fwd[i] = "raised",
                      !.errors = Append(@, TaskError("ConnectionResetError", i + 1))]
    /\ UNCHANGED Datasets

\* The stage whose output is followed writes a byte, once the pipe has room.
StageWrite ==
    /\ run.phase \in {"group", "wait"}
    /\ run.pair # 0
    /\ run.proc[run.pair] = "running"
    /\ run.out < run.want
    /\ run.out - run.taken < MaxPipe
    /\ run' = [run EXCEPT !.out = @ + 1]
    /\ UNCHANGED Datasets

\* forward(): src.read(4096) returns with what the pipe holds.
ForwardRead ==
    /\ run.phase = "group"
    /\ run.pair # 0
    /\ run.fwd[run.pair] = "pending"
    /\ run.chunk = <<>>
    /\ run.taken < run.out
    /\ run' = [run EXCEPT !.chunk = ReadChunk(run.out, run.taken),
                          !.taken = @ + Len(ReadChunk(run.out, run.taken))]
    /\ UNCHANGED Datasets

\* forward(): dest.write(chunk) and dest.drain(); drain() raises where the
\* downstream process is gone.
ForwardWrite ==
    /\ run.phase = "group"
    /\ run.pair # 0
    /\ run.fwd[run.pair] = "pending"
    /\ run.chunk # <<>>
    /\ run' = IF run.proc[run.pair + 1] = "exited"
              THEN [run EXCEPT
                      !.fwd[run.pair] = "raised",
                      !.errors = Append(@, TaskError("ConnectionResetError",
                                                     run.pair + 1))]
              ELSE [run EXCEPT !.inp = DestWrite(@, run.chunk), !.chunk = <<>>]
    /\ UNCHANGED Datasets

\* The last stage writes a line to its output.
ProcWrite ==
    /\ run.phase = "group"
    /\ run.proc[run.n] = "running"
    /\ run.written < MaxLines
    /\ run' = [run EXCEPT !.written = @ + 1]
    /\ UNCHANGED Datasets

\* stream_reader(processes[-1].stdout): it appends the lines that have come
\* to output, and returns at the end of the last stage's output.
StreamReader ==
    /\ run.phase = "group"
    /\ run.reader = "pending"
    /\ \/ /\ run.nread < run.written
          /\ run' = [run EXCEPT !.nread = run.written]
       \/ /\ run.nread = run.written
          /\ AtEof(run)
          /\ run' = [run EXCEPT !.reader = "done"]
    /\ UNCHANGED Datasets

\* The task group after a task raised: it cancels the tasks still pending and
\* raises the exceptions; the except* block calls p.terminate() for every
\* process of the chain and keeps the exceptions.
GroupCancel ==
    /\ run.phase = "group"
    /\ run.errors # <<>>
    /\ run' = [run EXCEPT !.phase = "wait", !.watch = Cancelled(@),
                          !.fwd = Cancelled(@),
                          !.reader = IF @ = "pending" THEN "cancelled" ELSE @,
                          !.term = [i \in 1..run.n |-> TRUE],
                          !.killed = {i \in 1..run.n : run.proc[i] = "running"}]
    /\ UNCHANGED Datasets

\* The task group left with every task done.
GroupExit ==
    /\ run.phase = "group"
    /\ run.errors = <<>>
    /\ ~PendingTasks(run)
    /\ run' = [run EXCEPT !.phase = "wait"]
    /\ UNCHANGED Datasets

\* The end of main(): await p.communicate() for every process, then the
\* first exception is raised, or the output returned.
Finish ==
    /\ run.phase = "wait"
    /\ \A i \in 1..run.n : Exited(run.proc, i)
    /\ run' = [run EXCEPT
                 !.phase = "end",
                 !.outcome = IF run.errors = <<>> THEN "returned" ELSE "raised",
                 !.error = IF run.errors = <<>> THEN NoError ELSE run.errors[1],
                 !.result = IF run.errors = <<>>
                            THEN Strip(Join(Output(run.nread)))
                            ELSE <<>>,
                 !.raised = IF run.errors = <<>>
                            THEN NoException
                            ELSE Raise(Exceptions(run))]
    /\ UNCHANGED Datasets

\* A handle on a dataset that is missing, or exists with up to MaxTgt
\* snapshots and bookmarks, with or without a resume token.
InitHandle ==
    /\ src_snaps = {}
    /\ src_bms = {}
    /\ tgt_exists = FALSE
    /\ tgt_snaps = {}
    /\ tgt_token = NoToken
    /\ last = Idle
    /\ run = RunIdle
    /\ \/ zfs = NoHandle
       \/ \E snaps \in 0..MaxTgt, bms \in 0..MaxTgt, token \in {0, 1} :
             zfs = Handle(TRUE, snaps, bms, token)

Others == <<src_snaps, src_bms, tgt_exists, tgt_snaps, tgt_token, last, run>>

ZfsSnapshots ==
    /\ zfs.steps < MaxCalls
    /\ \E outcome \in Outcomes(zfs) : zfs' = CachedRead(zfs, "snapshots", outcome)
    /\ UNCHANGED Others

ZfsBookmarks ==
    /\ zfs.steps < MaxCalls
    /\ \E outcome \in Outcomes(zfs) : zfs' = CachedRead(zfs, "bookmarks", outcome)
    /\ UNCHANGED Others

ZfsResumeToken ==
    /\ zfs.steps < MaxCalls
    /\ \E outcome \in Outcomes(zfs) : zfs' = CachedRead(zfs, "resume_token", outcome)
    /\ UNCHANGED Others

ZfsExists ==
    /\ zfs.steps < MaxCalls
    /\ \E outcome \in Outcomes(zfs) : zfs' = Exists(zfs, outcome)
    /\ UNCHANGED Others

\* ZfsBackend.snapshot(name): zfs snapshot adds a snapshot, or fails.
ZfsSnapshot ==
    /\ zfs.steps < MaxCalls
    /\ \E outcome \in Outcomes(zfs) :
         /\ outcome = "ok" => zfs.snaps < MaxTgt
         /\ zfs' = Mutation(zfs, "snapshot", outcome, zfs.exists,
                            IF outcome = "ok" THEN zfs.snaps + 1 ELSE zfs.snaps,
                            zfs.bms, zfs.token)
    /\ UNCHANGED Others

\* ZfsBackend.bookmark(snapshot): zfs bookmark adds a bookmark of a snapshot
\* the dataset holds, or fails.
ZfsBookmark ==
    /\ zfs.steps < MaxCalls
    /\ \E outcome \in Outcomes(zfs) :
         /\ outcome = "ok" => (zfs.snaps > 0 /\ zfs.bms < MaxTgt)
         /\ zfs' = Mutation(zfs, "bookmark", outcome, zfs.exists, zfs.snaps,
                            IF outcome = "ok" THEN zfs.bms + 1 ELSE zfs.bms,
                            zfs.token)
    /\ UNCHANGED Others

\* ZfsBackend.recv(stream, dry_run): the receive adds the stream's snapshot
\* and uses up the token, creating the dataset where it is missing; a dry
\* run and a receive refused change nothing; a receive that is interrupted
\* leaves a token.
ZfsRecv ==
    /\ zfs.steps < MaxCalls
    /\ \E dry_run \in BOOLEAN :
         \/ /\ ~dry_run => zfs.snaps < MaxTgt
            /\ zfs' = Mutation(zfs, "recv", "ok",
                               IF dry_run THEN zfs.exists ELSE TRUE,
                               IF dry_run THEN zfs.snaps ELSE zfs.snaps + 1,
                               zfs.bms,
                               IF dry_run THEN zfs.token ELSE 0)
         \/ zfs' = Mutation(zfs, "recv", "SubprocessError",
                            zfs.exists, zfs.snaps, zfs.bms, zfs.token)
         \/ /\ ~dry_run
            /\ zfs' = Mutation(zfs, "recv", "SubprocessError",
                               TRUE, zfs.snaps, zfs.bms, 1)
    /\ UNCHANGED Others

\* ZfsBackend.destroy(snapshots, dry_run) for k names: with no name it
\* returns at once; else zfs destroy removes the snapshots, unless it is a
\* dry run or fails.
ZfsDestroy ==
    /\ zfs.steps < MaxCalls
    /\ \E k \in 0..zfs.snaps, dry_run \in BOOLEAN :
         \/ /\ k = 0
            /\ zfs' = [zfs EXCEPT !.op = "destroy nothing", !.ran = "none",
                                  !.result = "ok", !.value = 0, !.steps = @ + 1]
         \/ /\ k > 0
            /\ \E outcome \in Outcomes(zfs) :
                  zfs' = Mutation(zfs, "destroy", outcome, zfs.exists,
                                  IF outcome = "ok" /\ ~dry_run
                                  THEN zfs.snaps - k ELSE zfs.snaps,
                                  zfs.bms, zfs.token)
    /\ UNCHANGED Others

\* send() about to log a transfer of a stream it has built, full,
\* incremental or resumed, with the caller's pipes, as a dry run or not.
InitStream ==
    /\ src_snaps = {}
    /\ src_bms = {}
    /\ tgt_exists = FALSE
    /\ tgt_snaps = {}
    /\ tgt_token = NoToken
    /\ last = Idle
    /\ run = RunIdle
    /\ \E mode \in {"full", "incremental", "resume"}, pipes \in FilterChains,
          dry_run \in BOOLEAN :
          zfs = ZfsStream(mode, pipes, dry_run)

\* send(): log.info with sizeof_fmt(stream.size()); an exception of size()
\* leaves send().
SendLogInfo ==
    /\ zfs.pc = "info"
    /\ \E r \in SizeRuns :
       \E st \in {size(zfs, r)} :
          zfs' = [st EXCEPT !.pc = IF st.result # "ok" THEN "aborted"
                                   ELSE IF st.mode = "full" THEN "recv"
                                   ELSE "debug"]
    /\ UNCHANGED Others

\* send(): log.debug of the incremental and the resume branch, with
\* stream.size() once more.
SendLogDebug ==
    /\ zfs.pc = "debug"
    /\ \E r \in SizeRuns :
       \E st \in {size(zfs, r)} :
          zfs' = [st EXCEPT !.pc = IF st.result # "ok" THEN "aborted" ELSE "recv"]
    /\ UNCHANGED Others

\* recv(): every argument of every pipe is formatted with stream.size(),
\* which send() has called before; an argument that cannot be formatted
\* raises and leaves recv().
RecvFormat ==
    /\ zfs.pc = "recv"
    /\ zfs' = IF FormatRaises(zfs.pipes)
              THEN [zfs EXCEPT !.pc = "aborted", !.result = "KeyError"]
              ELSE [zfs EXCEPT
                      !.pc = "run",
                      !.calls = @ + ArgCount(zfs.pipes),
                      !.formatted = FormatPipes(zfs.pipes, zfs.cache.value)]
    /\ UNCHANGED Others

\* recv(): runner.run(stream.args, *pipes, args); the receive changes the
\* target where the chain succeeds and the run is not a dry run.
RecvRun ==
    /\ zfs.pc = "run"
    /\ \E outcome \in {"ok", "SubprocessError"} :
          zfs' = [zfs EXCEPT
                    !.pc = IF outcome = "ok" THEN "done" ELSE "failed",
                    !.result = outcome,
                    !.chain = <<zfs.args>> \o zfs.formatted \o <<RecvArgs(zfs.dry_run)>>,
                    !.runs = @ + 1,
                    !.sized = zfs.cache.cached,
                    !.changed = (outcome = "ok" /\ ~zfs.dry_run)]
    /\ UNCHANGED Others

\* Any other call of size() on the stream, at any time, up to MaxCalls calls
\* in all.
StreamSize ==
    /\ zfs.pc \in {"info", "debug", "recv", "run", "done", "failed", "aborted"}
    /\ zfs.calls < MaxCalls
    /\ \E r \in SizeRuns :
       \E st \in {size(zfs, r)} :
          zfs' = [st EXCEPT !.result = zfs.result]
    /\ UNCHANGED Others

StreamTransfer == SendLogInfo \/ SendLogDebug \/ RecvFormat \/ RecvRun \/ StreamSize

BackendHandle ==
    \/ ZfsSnapshots \/ ZfsBookmarks \/ ZfsResumeToken \/ ZfsExists
    \/ ZfsSnapshot \/ ZfsBookmark \/ ZfsRecv \/ ZfsDestroy

Runner ==
    \/ Spawn \/ ProcExit \/ StderrWatch \/ ForwardEof \/ ForwardBroken \/ StreamReader
    \/ GroupCancel \/ GroupExit \/ Finish

\* The runner with a last stage that writes to its output.
RunnerOutput == Runner \/ ProcWrite

\* The runner with a stage whose output is forwarded chunk by chunk.
RunnerForward ==
    \/ Spawn \/ ProcExit \/ StderrWatch \/ ForwardEof \/ StreamReader
    \/ GroupCancel \/ GroupExit \/ Finish
    \/ StageWrite \/ ForwardRead \/ ForwardWrite

Next ==
    \/ Ancestor \/ Send \/ Sync \/ Prune \/ OperationsListed
    \/ RunnerOutput \/ RunnerForward \/ BackendHandle \/ StreamTransfer

Spec == Init /\ [][Next]_vars

\* One specification per operation, over the same initial states.
SpecAncestor == Init /\ [][Ancestor]_vars
SpecSend == Init /\ [][Send]_vars
SpecSync == Init /\ [][Sync]_vars
SpecPrune == InitPrune /\ [][Prune]_vars
SpecListed == Init /\ [][OperationsListed]_vars
SpecTransfer == Init /\ [][Send \/ Sync]_vars
SpecRunner == InitRunner /\ [][Runner]_vars
SpecOutput == InitOutput /\ [][RunnerOutput]_vars
SpecForward == InitForward /\ [][RunnerForward]_vars

\* The runner on an event loop that runs every task that can go on, with
\* processes that go on when they can: a stage writes what it has to write
\* once the pipe has room, the first stage comes to its end, a later one
\* exits at the end of its input, and every one exits once terminated.
SpecLive ==
    /\ InitForward
    /\ [][RunnerForward]_vars
    /\ WF_vars(Spawn) /\ WF_vars(ProcExit) /\ WF_vars(StageWrite)
    /\ WF_vars(StderrWatch) /\ WF_vars(ForwardEof) /\ WF_vars(ForwardRead)
    /\ WF_vars(ForwardWrite) /\ WF_vars(StreamReader)
    /\ WF_vars(GroupCancel) /\ WF_vars(GroupExit) /\ WF_vars(Finish)
SpecClassify == InitClassify /\ [][Finish]_vars
SpecHandle == InitHandle /\ [][BackendHandle]_vars
SpecStream == InitStream /\ [][StreamTransfer]_vars

-----------------------------------------------------------------------------
(* Properties *)

GuidSet(S) == {e.guid : e \in S}

Called(calls, call) == \E i \in 1..Len(calls) : calls[i] = call
Count(calls, call) == Cardinality({i \in 1..Len(calls) : calls[i] = call})

\* The operation left the target as it found it.
TargetUntouched ==
    /\ tgt_exists = last.before.exists
    /\ tgt_snaps = last.before.snaps
    /\ tgt_token = last.before.token

SentFromSource == last.op = "send" /\ last.snapshot.guid \in GuidSet(src_snaps)

\* send() built one stream of the given mode: it asked the source for it, and
\* what recv got (if the size estimate let it come to that) is that stream.
Built(mode, snapshot, base, token) ==
    /\ Count(last.calls, "source.send") = 1
    /\ Count(last.calls, "target.recv") <= 1
    /\ Called(last.calls, "target.recv")
         => last.stream = [mode |-> mode, snapshot |-> snapshot, base |-> base,
                           token |-> token]
    /\ last.result = "ok" => Called(last.calls, "target.recv")

BuiltFull == Built("full", last.snapshot, None, NoToken)
BuiltResume == Built("resume", None, None, last.before.token)
BuiltIncremental(base) == Built("incremental", last.snapshot, base, NoToken)

\* The source references older than snapshot whose guid the target holds.
CommonOlder(snapshot, target_snaps) ==
    {e \in src_snaps \cup src_bms :
        e.createtxg < snapshot.createtxg /\ e.guid \in GuidSet(target_snaps)}

\* e is a newest member of S, a snapshot if S has one that new.
IsNewestOf(e, S) ==
    /\ e \in S
    /\ \A f \in S : f.createtxg <= e.createtxg
    /\ \A f \in S : f.createtxg = e.createtxg /\ f.kind = "snapshot" => e.kind = "snapshot"

\* C1: send of a snapshot whose guid the existing target already lists is a
\* no-op: no stream is built, no size estimate is run, recv is not called and
\* the target is left as it was, also when the target reports a resume token.
C1_SkipIsNoOp ==
    (/\ last.op = "send"
     /\ last.before.exists
     /\ last.snapshot.guid \in GuidSet(last.before.snaps))
    => /\ last.stream = NoStream
       /\ ~Called(last.calls, "source.send")
       /\ ~Called(last.calls, "stream.size")
       /\ ~Called(last.calls, "target.recv")
       /\ ~Called(last.calls, "target.resume_token")
       /\ TargetUntouched
       /\ SentFromSource => last.result = "ok"

C1_Witness ==
    /\ SentFromSource
    /\ last.before.exists
    /\ last.snapshot.guid \in GuidSet(last.before.snaps)
    /\ last.before.token # NoToken
    /\ last.result = "ok"

\* C2: send of a source snapshot to a target that does not exist makes one
\* transfer, a full one of that snapshot, without asking for the resume
\* token or the ancestor; afterwards the target holds that snapshot only.
C2_AbsentTargetFullSend ==
    (SentFromSource /\ ~last.before.exists)
    => /\ BuiltFull
       /\ ~Called(last.calls, "target.resume_token")
       /\ ~Called(last.calls, "ancestor")
       /\ (last.result = "ok" /\ ~last.dry_run)
            => /\ tgt_exists
               /\ Cardinality(tgt_snaps) = 1
               /\ \A t \in tgt_snaps :
                    t.guid = last.snapshot.guid /\ t.name = last.snapshot.name

C2_Witness ==
    /\ SentFromSource
    /\ ~last.before.exists
    /\ src_snaps = {last.snapshot}
    /\ last.result = "ok"
    /\ ~last.dry_run
    /\ GuidSet(tgt_snaps) = {last.snapshot.guid}

\* C3: send to an existing target that lacks the snapshot and reports a
\* resume token builds the resume stream from that token and receives it,
\* and never calls the ancestor resolver.
C3_ResumeSkipsAncestor ==
    (/\ SentFromSource
     /\ last.before.exists
     /\ last.snapshot.guid \notin GuidSet(last.before.snaps)
     /\ last.before.token # NoToken)
    => /\ BuiltResume
       /\ ~Called(last.calls, "ancestor")

C3_Witness ==
    /\ SentFromSource
    /\ last.before.exists
    /\ last.snapshot.guid \notin GuidSet(last.before.snaps)
    /\ last.before.token # NoToken
    /\ last.result = "ok"
    /\ last.stream.mode = "resume"
    /\ CommonOlder(last.snapshot, last.before.snaps) # {}

\* C4: the mode of send is that of the first rule that matches, in the order
\* target absent (full), already replicated (skip), resume token (resume),
\* ancestor found (incremental from exactly that reference), else full.
C4_FirstMatchingRule ==
    SentFromSource
    => LET b == last.before
           common == CommonOlder(last.snapshot, b.snaps)
       IN  IF ~b.exists THEN BuiltFull
           ELSE IF last.snapshot.guid \in GuidSet(b.snaps)
                THEN last.stream = NoStream /\ ~Called(last.calls, "source.send")
           ELSE IF b.token # NoToken THEN BuiltResume
           ELSE IF common # {}
                THEN \E base \in common :
                        /\ IsNewestOf(base, common)
                        /\ BuiltIncremental(base)
                        /\ Called(last.calls, "ancestor")
           ELSE BuiltFull /\ Called(last.calls, "ancestor")

C4_Witness ==
    /\ SentFromSource
    /\ last.before.exists
    /\ last.before.token = NoToken
    /\ last.result = "ok"
    /\ last.stream.mode = "incremental"
    /\ last.stream.base.guid \in GuidSet(last.before.snaps)
    /\ Cardinality(CommonOlder(last.snapshot, last.before.snaps)) > 1

\* C5: send of a snapshot whose guid the source does not list raises the
\* not-found error before anything else: the target is not asked whether it
\* exists, no stream is built, nothing is transferred, the target is as it was.
C5_NotFoundFirst ==
    (last.op = "send" /\ last.snapshot.guid \notin GuidSet(src_snaps))
    => /\ last.result = "FileNotFoundError"
       /\ last.calls = <<"source.snapshots">>
       /\ last.stream = NoStream
       /\ TargetUntouched

C5_Witness ==
    /\ last.op = "send"
    /\ last.result = "FileNotFoundError"
    /\ last.snapshot.guid \in GuidSet(src_bms)
    /\ last.snapshot.guid \in GuidSet(tgt_snaps)

\* C6: the ancestor resolver never returns a reference whose createtxg is
\* not below that of the snapshot: not the snapshot, not a bookmark of it.
C6_AncestorStrictlyOlder ==
    (last.op = "ancestor" /\ last.base # None)
    => /\ last.base.createtxg < last.snapshot.createtxg
       /\ last.base.guid # last.snapshot.guid

C6_Witness ==
    /\ last.op = "ancestor"
    /\ last.base # None
    /\ \E b \in src_bms : b.guid = last.snapshot.guid /\ b.guid \in GuidSet(tgt_snaps)

\* C7: the ancestor resolver returns the newest of the source's snapshots and
\* bookmarks that are older than the snapshot and whose guid the target
\* holds, and None exactly when there is no such reference.
C7_AncestorNewestCommon ==
    last.op = "ancestor"
    => LET common == CommonOlder(last.snapshot, tgt_snaps)
       IN  /\ last.base = None <=> common = {}
           /\ last.base # None
                => /\ last.base \in common
                   /\ \A e \in common : e.createtxg <= last.base.createtxg

C7_Witness ==
    /\ last.op = "ancestor"
    /\ last.base.kind = "bookmark"
    /\ last.base.guid \notin GuidSet(src_snaps)
    /\ \E e \in src_snaps :
         e.createtxg > last.snapshot.createtxg /\ e.guid \in GuidSet(tgt_snaps)

\* C8: where the newest common state is held on the source by a snapshot and
\* by a bookmark, the ancestor resolver returns the snapshot, in whatever
\* order the backend lists them.
C8_SnapshotBeforeBookmark ==
    (/\ last.op = "ancestor"
     /\ last.base # None
     /\ \E s \in src_snaps : s.createtxg = last.base.createtxg)
    => last.base.kind = "snapshot"

C8_Witness ==
    /\ last.op = "ancestor"
    /\ last.listing = "asc"
    /\ last.base.kind = "snapshot"
    /\ \E b \in src_bms : b.createtxg = last.base.createtxg /\ b.guid = last.base.guid

SyncDone == last.op = "sync" /\ last.result = "ok" /\ ~last.dry_run

\* Whether sync found nothing on the target to start from.
FoundInitial == ~last.before.exists \/ last.before.snaps = {}

\* The source snapshot that is the target's newest one, as sync found it.
FoundLatest ==
    LET t == CHOOSE x \in last.before.snaps :
                 \A y \in last.before.snaps : y.createtxg <= x.createtxg
    IN  CHOOSE s \in src_snaps : s.guid = t.guid

\* The send sync made for s resumed the transfer of an outstanding token that
\* names another snapshot than s.
ResumedOther(s) ==
    \E i \in 1..Len(last.sends) :
        /\ last.to_sync[i] = s
        /\ last.sends[i].stream.mode = "resume"
        /\ last.sends[i].stream.token # fqn2token(s.name)

C10_SyncIdempotent ==
    SyncDone
    => \A cleared \in BOOLEAN :
          LET again == sync(Source, Target, last.regex, FALSE, 0, "none", cleared)
          IN  /\ again.result = "ok"
              /\ \A i \in 1..Len(again.sends) : again.sends[i].stream = NoStream

\* C10 where no resume token was outstanding.
C10_SyncIdempotentNoToken ==
    (SyncDone /\ last.before.token = NoToken) => C10_SyncIdempotent


\* The target sync found holds a newest snapshot the source does not know.
FoundInconsistent ==
    /\ ~FoundInitial
    /\ LET t == CHOOSE x \in last.before.snaps :
                    \A y \in last.before.snaps : y.createtxg <= x.createtxg
       IN  t.guid \notin GuidSet(src_snaps)

\* What sync is to hand to send, from the target as sync found it.
ExpectedCandidates ==
    IF FoundInitial
    THEN {s \in src_snaps : Match(last.regex, s.name)}
    ELSE {s \in src_snaps :
            /\ s.guid \notin GuidSet(last.before.snaps)
            /\ s.createtxg > FoundLatest.createtxg
            /\ Match(last.regex, s.name)}

\* C11: the snapshots sync hands to send are exactly: every source snapshot
\* matching the filter where the target is absent or empty; otherwise the
\* source snapshots missing on the target, newer than the source snapshot
\* matching the target's newest one, and matching the filter.  A missing
\* snapshot older than that one is never handed over.
C11_SyncCandidateSet ==
    (last.op = "sync" /\ ~FoundInconsistent)
    => /\ Range(last.to_sync) = ExpectedCandidates
       /\ Len(last.to_sync) = Cardinality(ExpectedCandidates)
       /\ Len(last.sends) <= Len(last.to_sync)
       /\ last.result = "ok" => Len(last.sends) = Len(last.to_sync)
       /\ \A i \in 1..Len(last.sends) :
             last.sends[i].stream.mode \in {"full", "incremental"}
                => last.sends[i].stream.snapshot = last.to_sync[i]

C11_Witness ==
    /\ last.op = "sync"
    /\ last.result = "ok"
    /\ ~FoundInitial
    /\ ~FoundInconsistent
    /\ last.to_sync # <<>>
    /\ \E s \in src_snaps :
         /\ Match(last.regex, s.name)
         /\ s.guid \notin GuidSet(last.before.snaps)
         /\ s.createtxg < FoundLatest.createtxg
         /\ s \notin Range(last.to_sync)

\* C12: where the target exists, holds a snapshot and its newest snapshot's
\* guid matches no source snapshot, sync raises the inconsistent-target error
\* and transfers nothing: no send is made and the target is as it was, also
\* where other target snapshots do match source snapshots.
C12_InconsistentTargetNoTransfer ==
    (last.op = "sync" /\ FoundInconsistent)
    => /\ last.result = "RuntimeError"
       /\ last.sends = <<>>
       /\ TargetUntouched

C12_Witness ==
    /\ last.op = "sync"
    /\ FoundInconsistent
    /\ last.result = "RuntimeError"
    /\ GuidSet(last.before.snaps) \cap GuidSet(src_snaps) # {}
    /\ \E s \in src_snaps : s.guid \notin GuidSet(last.before.snaps)

\* C13: sync transfers its candidates one after the other in ascending
\* createtxg of the source: send i+1 is decided on the target send i left
\* behind (so it finds the snapshot of send i there and starts from it or from
\* a newer one), every send before the last one made has returned, and the
\* target receives the snapshots in the order the source created them.
C13_SequentialAscending ==
    last.op = "sync"
    => /\ \A i, j \in 1..Len(last.to_sync) :
             i < j => last.to_sync[i].createtxg < last.to_sync[j].createtxg
       /\ \A i \in 1..(Len(last.sends) - 1) :
             /\ last.sends[i].result = "ok"
             /\ \/ last.sends[i].stream = NoStream
                \/ last.sends[i].calls[Len(last.sends[i].calls)] = "target.recv"
       /\ (~last.dry_run /\ last.before.token = NoToken)
            => \A i \in 2..Len(last.sends) :
                  /\ last.to_sync[i - 1].guid \in GuidSet(last.sends[i - 1].target.snaps)
                  /\ Called(last.sends[i].calls, "target.recv")
                       => /\ last.sends[i].stream.mode = "incremental"
                          /\ last.sends[i].stream.base.createtxg
                                >= last.to_sync[i - 1].createtxg
       /\ (~last.dry_run /\ last.before.token = NoToken)
            => \A a, b \in tgt_snaps \ last.before.snaps :
                  a.createtxg < b.createtxg
                  => \E s, t \in Range(last.to_sync) :
                        /\ s.guid = a.guid
                        /\ t.guid = b.guid
                        /\ s.createtxg < t.createtxg

C13_Witness ==
    /\ SyncDone
    /\ last.before.token = NoToken
    /\ Len(last.sends) >= 2
    /\ last.sends[1].stream.mode = "full"
    /\ last.sends[2].stream.base = last.to_sync[1]

\* C14: where the transfer of candidate k fails, sync ends with that send's
\* error, the send is made once, no candidate after k is attempted, and what
\* the sends before k transferred stays on the target.
C14_FailureStopsNoRollback ==
    last.op = "sync"
    => \A k \in 1..Len(last.sends) :
          last.sends[k].result # "ok"
          => /\ k = Len(last.sends)
             /\ last.result = last.sends[k].result
             /\ Count(last.sends[k].calls, "target.recv") <= 1
             /\ Count(last.sends[k].calls, "source.send") = 1
             /\ tgt_snaps = last.sends[k].target.snaps
             /\ \A i \in 1..(k - 1) :
                   /\ last.sends[i].result = "ok"
                   /\ (~last.dry_run /\ last.sends[i].stream.mode # "resume")
                        => last.to_sync[i].guid \in GuidSet(tgt_snaps)
             /\ last.before.token = NoToken
                  => \A j \in k..Len(last.to_sync) :
                        last.to_sync[j].guid \notin GuidSet(tgt_snaps)

C14_Witness ==
    /\ last.op = "sync"
    /\ ~last.dry_run
    /\ last.result = "SubprocessError"
    /\ Len(last.sends) = 2
    /\ Len(last.to_sync) = 3
    /\ last.to_sync[1].guid \in GuidSet(tgt_snaps) \ GuidSet(last.before.snaps)


\* What a prune that was no dry run destroyed.
Destroyed == last.before.snaps \ src_snaps

\* The snapshots prune found that rule's regex matches.
Matched(rule) == {s \in last.before.snaps : Match(rule.regex, s.name)}

\* s is matched by the rule and is not among its keep newest matches.
ObsoleteUnder(s, rule) ==
    /\ s \in Matched(rule)
    /\ \/ rule.keep <= 0
       \/ Cardinality({t \in Matched(rule) : t.createtxg >= s.createtxg}) > rule.keep

\* C15: prune with one rule (pattern, keep): with M matches and 0 < keep <= M
\* exactly the keep newest matches remain and the M - keep oldest are
\* destroyed; with keep > M nothing is destroyed; with keep <= 0 all matches
\* are destroyed; snapshots that do not match are untouched.
C15_SingleRuleRetention ==
    (last.op = "prune" /\ Len(last.policy) = 1 /\ ~last.dry_run)
    => LET rule == last.policy[1]
           M == Cardinality(Matched(rule))
           N == rule.keep
       IN  /\ src_snaps \subseteq last.before.snaps
           /\ Destroyed \subseteq Matched(rule)
           /\ (0 < N /\ N <= M)
                => /\ Cardinality(Matched(rule) \cap src_snaps) = N
                   /\ Cardinality(Destroyed) = M - N
                   /\ \A kept \in Matched(rule) \cap src_snaps, gone \in Destroyed :
                         gone.createtxg < kept.createtxg
           /\ N > M => Destroyed = {}
           /\ N <= 0 => Destroyed = Matched(rule)

C15_Witness ==
    /\ last.op = "prune"
    /\ Len(last.policy) = 1
    /\ ~last.dry_run
    /\ last.policy[1].keep = 1
    /\ Cardinality(Matched(last.policy[1])) = 2
    /\ Cardinality(Destroyed) = 1
    /\ src_snaps \ Matched(last.policy[1]) # {}

\* C16: prune with dry_run makes the same selection as without and destroys
\* nothing: the dataset's snapshots are those it had before, and no destroy
\* command that destroys is issued.
C16_DryRunDestroysNothing ==
    (last.op = "prune" /\ last.dry_run)
    => /\ src_snaps = last.before.snaps
       /\ ~Called(last.calls, "zfs destroy")
       /\ last.obsolete = prune(last.before, last.policy, FALSE).obsolete

C16_Witness ==
    /\ last.op = "prune"
    /\ last.dry_run
    /\ Len(last.obsolete) >= 2
    /\ Called(last.calls, "zfs destroy -n")
    /\ src_snaps = last.before.snaps

\* C17: prune evaluates every rule against the listing it found and destroys
\* the union of the rules' obsolete snapshots in one batch: destroy is called
\* once, after every rule was evaluated, and issues no command for an empty
\* union; a snapshot is destroyed iff some rule matches it and does not retain
\* it, and a snapshot no rule matches is never destroyed.
C17_UnionInOneBatch ==
    last.op = "prune"
    => LET obsolete == {s \in last.before.snaps :
                          \E i \in 1..Len(last.policy) : ObsoleteUnder(s, last.policy[i])}
       IN  /\ Count(last.calls, "dataset.destroy") = 1
           /\ last.calls[Len(last.calls)] # "dataset.snapshots"
           /\ \A i \in 1..Len(last.calls) :
                 last.calls[i] = "dataset.snapshots" => i <= Len(last.policy)
           /\ Count(last.calls, "zfs destroy") + Count(last.calls, "zfs destroy -n")
                = (IF obsolete = {} THEN 0 ELSE 1)
           /\ ~last.dry_run => Destroyed = obsolete
           /\ {s.name : s \in obsolete} = Range(last.obsolete)

C17_Witness ==
    /\ last.op = "prune"
    /\ ~last.dry_run
    /\ Len(last.policy) = 2
    /\ \E s \in Destroyed :
         /\ s \in Matched(last.policy[1])
         /\ ~ObsoleteUnder(s, last.policy[1])
         /\ ObsoleteUnder(s, last.policy[2])
    /\ \E s \in src_snaps : \A i \in 1..2 : s \notin Matched(last.policy[i])

\* C18: the names prune hands to destroy hold no name twice, also where a
\* snapshot is obsolete under more than one rule.
C18_NoDuplicateNames ==
    last.op = "prune"
    => \A i, j \in 1..Len(last.obsolete) :
          i # j => last.obsolete[i] # last.obsolete[j]


\* The stages of the finished invocation whose error output holds a text.
TextStages == {i \in 1..run.n : run.beh[i].stderr = "text"}

\* A command of the chain could not be started.
SpawnFailed == run.error.kind = "OSError"

\* A forwarder raised in the invocation.
ForwarderRaised == \E i \in 1..(run.n - 1) : run.fwd[i] = "raised"

C20_TerminateAllThenWait ==
    /\ (run.phase \in {"wait", "end"} /\ run.errors # <<>>)
         => \A i \in 1..run.n : run.term[i]
    /\ run.outcome # "none" => run.phase = "end"
    /\ (run.phase = "end" /\ ~SpawnFailed)
         => \A i \in 1..run.n : run.proc[i] = "exited"

C20_Witness ==
    /\ run.phase = "end"
    /\ run.outcome = "raised"
    /\ run.error.kind = "ConnectionResetError"
    /\ Cardinality(run.killed) >= 2

\* t is the text full without the whitespace at its two ends.
TrimOf(t, full) ==
    /\ t = <<>> \/ (~Whitespace(t[1]) /\ ~Whitespace(t[Len(t)]))
    /\ \E i \in 0..Len(full) :
         /\ i + Len(t) <= Len(full)
         /\ t = SubSeq(full, i + 1, i + Len(t))
         /\ \A k \in 1..Len(full) :
               (k <= i \/ k > i + Len(t)) => Whitespace(full[k])

\* The stage ended badly: with a diagnostic text or with an exit code that is
\* not 0.
StageFailed(i) == run.beh[i].stderr = "text" \/ run.beh[i].code # 0

\* C21: run() hands its caller the whole output or an error, never a part of
\* the output: it returns a text only if no stage failed, and the text then
\* is everything the last stage wrote to its output, joined and trimmed; when
\* a stage before the last one fails, run() raises, and whenever it raises
\* the lines already read are handed to nobody.
C21_CompleteOutputOrError ==
    run.phase = "end"
    => /\ run.outcome = "returned"
            => /\ \A i \in 1..run.n : ~StageFailed(i)
               /\ TrimOf(run.result, Join(Output(run.written)))
       /\ run.outcome = "raised" => run.result = <<>>
       /\ (\E i \in 1..(run.n - 1) : StageFailed(i)) => run.outcome = "raised"

\* What holds of C21: the same with the failures the runner looks for, which
\* are a diagnostic text, a forwarding error and a command that cannot be
\* started; exit codes are not among them.
C21_CompleteOutputOrDetectedError ==
    run.phase = "end"
    => /\ run.outcome = "returned"
            => /\ TextStages = {} /\ ~ForwarderRaised /\ ~SpawnFailed
               /\ TrimOf(run.result, Join(Output(run.written)))
       /\ run.outcome = "raised" => run.result = <<>>
       /\ (\E i \in TextStages : i < run.n) => run.outcome = "raised"

\* The error run() raises stems from the monitor of a stage.
StageErrorRaised ==
    run.phase = "end" /\ run.errors # <<>> /\ run.errors[1].kind = "SubprocessError"

\* The kind the phrases of a text stand for, the no-such-dataset phrase
\* first.
KindOf(text) ==
    IF Contains(text, "nsd") THEN "NoSuchDatasetError"
    ELSE IF MatchesDestinationExists(text) THEN "DestinationFilesystemExists"
    ELSE "SubprocessError"

\* C22: the error raised for a failing stage is classified by the stage's
\* error text alone: NoSuchDataset if the text holds the no-such-dataset
\* phrase, else DestinationExists if it matches the destination-exists
\* pattern, else the generic stage failure; and it carries the command line
\* of that stage.
C22_ClassifiedByTextAlone ==
    StageErrorRaised
    => /\ run.raised.class = KindOf(run.texts[run.errors[1].stage])
       /\ run.raised.cmd = run.cmds[run.errors[1].stage]

\* What holds of C22: the kind is that of the rendered error, which is the
\* stage's command line followed by its error text.
C22_ClassifiedByRenderedError ==
    StageErrorRaised
    => /\ run.raised.class
            = KindOf(<<"Command">> \o run.cmds[run.errors[1].stage] \o <<"failed:">>
                       \o run.texts[run.errors[1].stage])
       /\ run.raised.cmd = run.cmds[run.errors[1].stage]

\* The last call on the handle was a mutating one.
Mutating == zfs.op \in {"snapshot", "bookmark", "recv", "destroy"}

\* C23: every mutating call of a handle - creating a snapshot or a bookmark,
\* a receive, a destroy of at least one name - leaves the three caches of the
\* handle empty, whether its command succeeded or failed, so every read of
\* the handle returns what the dataset holds at the time of the call, and the
\* first read of each kind after a mutating call runs its command.
C23_MutationInvalidatesAll ==
    /\ Mutating => \A read \in Reads : ~zfs.cache[read].cached
    /\ (zfs.op \in Reads /\ zfs.result = "ok") => zfs.value = Truth(zfs, zfs.op)
    /\ (zfs.op \in Reads /\ zfs.mutated # "none" /\ zfs.calls[zfs.op] = 1)
         => zfs.ran # "none"

C23_Witness ==
    /\ zfs.mutated = "snapshot"
    /\ zfs.mutation = "SubprocessError"
    /\ zfs.dropped = {"bookmarks", "resume_token"}
    /\ zfs.op = "resume_token"
    /\ zfs.ran = "ok"
    /\ zfs.value = 1

\* C24: since the last mutating call of the handle (or since the handle was
\* made), the calls of each memoized read - exists() counting as a call of
\* snapshots() - have run one command for every call that raised and one
\* more for all the calls that returned, however many these are.
C24_OneCommandPerRead ==
    \A read \in Reads :
        /\ zfs.raises[read] <= zfs.calls[read]
        /\ zfs.cmds[read]
             = zfs.raises[read] + (IF zfs.calls[read] > zfs.raises[read] THEN 1 ELSE 0)

C24_Witness ==
    /\ zfs.mutated # "none"
    /\ zfs.calls["snapshots"] = 3
    /\ zfs.raises["snapshots"] = 1
    /\ zfs.cmds["snapshots"] = 2
    /\ zfs.op = "snapshots"
    /\ zfs.ran = "none"

\* C26: exists() returns False exactly when its listing raised the error for
\* a missing dataset; it returns True when the listing returned, an empty
\* listing included, or was memoized; any other error of the listing is
\* raised to the caller and no answer given.
C26_ExistsFalseOnlyIfMissing ==
    zfs.op = "exists"
    => /\ (zfs.result = "ok" /\ zfs.value = 0) <=> zfs.ran = "NoSuchDatasetError"
       /\ zfs.ran \in {"ok", "none"} => (zfs.result = "ok" /\ zfs.value = 1)
       /\ zfs.ran = "SubprocessError" => zfs.result = "SubprocessError"

C26_Witness ==
    /\ zfs.op = "exists"
    /\ zfs.exists
    /\ zfs.snaps = 0
    /\ zfs.ran = "SubprocessError"
    /\ zfs.result = "SubprocessError"
    /\ zfs.calls["snapshots"] = 2

\* C25: whatever order the backends list in, the listings of snapshots and of
\* bookmarks the operations read hold the backend's entries, each once, in
\* ascending createtxg order, and ancestor, send, sync and prune do on them
\* what they do on the same datasets behind backends listing in another order.
Ascending(listing, S) ==
    /\ Range(listing) = S
    /\ Len(listing) = Cardinality(S)
    /\ \A i, j \in 1..Len(listing) :
          i < j => listing[i].createtxg < listing[j].createtxg

C25_ListingsSortedWhateverTheBackend ==
    (last.op # "none" /\ last.runs # <<>>)
    => /\ Ascending(last.listed[1], src_snaps)
       /\ Ascending(last.listed[2], src_bms)
       /\ Ascending(last.listed[3], last.before.snaps)
       /\ last.runs[1] = last.runs[2]

C25_Witness ==
    /\ last.op = "sync"
    /\ last.listing = "rot"
    /\ last.runs # <<>>
    /\ Len(last.runs[1].sends) >= 2
    /\ last.runs[1].result = "ok"
    /\ Cardinality(last.before.snaps) >= 2
    /\ Cardinality(src_bms) >= 1

\* C27: where the k-th command of a chain cannot be started, termination has
\* been requested of every process created before it and every one of them
\* has exited by the time the error reaches the caller.
C27_SpawnFailureTerminatesStarted ==
    (run.phase = "end" /\ SpawnFailed)
    => \A i \in 1..(run.error.stage - 1) :
          run.term[i] /\ run.proc[i] = "exited"

\* C28: the error monitor that raises first has detected the text while its
\* stage was still running, so that stage is among those the termination
\* request found running; and no chain with a stage that wrote diagnostic
\* text ends with every stage having run to its own end.
C28_TextAbortsRunningStage ==
    /\ (run.errors # <<>> /\ run.errors[1].kind = "SubprocessError"
           /\ run.phase \in {"wait", "end"})
         => run.errors[1].stage \in run.killed
    /\ (run.phase = "end" /\ ~SpawnFailed /\ TextStages # {})
         => run.killed # {}

\* C29: every invocation the exit-code runner reports as failed, that is one
\* with a stage whose exit code is not 0, is reported as failed by run().
C29_ExitCodeFailureFails ==
    (run.phase = "end" /\ ~SpawnFailed /\ FluxFails(run.beh))
    => run.outcome = "raised"

\* C30: what a failed invocation whose processes were all started raises is
\* one error of the taxonomy, with the command and the diagnostic text of
\* the stage that failed.
C30_OneClassifiedError ==
    (run.phase = "end" /\ run.outcome = "raised" /\ ~SpawnFailed)
    => /\ run.raised.class \in
             {"NoSuchDatasetError", "DestinationFilesystemExists", "SubprocessError"}
       /\ run.raised.cmd # <<>>
       /\ run.raised.message # <<>>

\* C31: the kind of error raised is fixed by the chain and by what its stages
\* do: where the first stage reports the text of a missing dataset and a
\* later stage reports another text, and no forwarder fails, run() raises
\* NoSuchDatasetError whatever the order in which the monitors finish.
C31_ErrorKindWhateverTheOrder ==
    (run.phase = "end" /\ ~SpawnFailed /\ ~ForwarderRaised
       /\ 1 \in TextStages /\ TextStages # {1})
    => run.raised.class = "NoSuchDatasetError"

C33_RunEnds ==
    /\ [](run.phase \in {"group", "wait"}
            => Len(run.watch) = run.n /\ Len(run.fwd) = run.n - 1)
    /\ []((run.phase \in {"wait", "end"} /\ ~SpawnFailed) => ~PendingTasks(run))
    /\ <>(run.phase = "end" /\ run.outcome \in {"returned", "raised"})

C33_Witness ==
    /\ run.phase = "end"
    /\ run.outcome = "returned"
    /\ run.n = MaxStages
    /\ run.pair = 1
    /\ run.out > MaxPipe
    /\ run.eof[MaxStages]

\* C34: after send(snapshot, source, target) has returned without error and
\* not as a dry run, the target holds a snapshot with the guid of the
\* snapshot asked for, in whatever mode the transfer was made.
C34_SentSnapshotOnTarget ==
    (last.op = "send" /\ last.result = "ok" /\ ~last.dry_run)
    => last.snapshot.guid \in GuidSet(tgt_snaps)

\* C34 where the transfer did not resume another snapshot's receive.
C34_SentSnapshotOnTargetUnlessResumed ==
    (last.op = "send" /\ last.result = "ok" /\ ~last.dry_run
       /\ (last.stream.mode = "resume"
             => last.stream.token = fqn2token(last.snapshot.name)))
    => last.snapshot.guid \in GuidSet(tgt_snaps)

\* The target's snapshots as the i-th send of the last sync found them.
SnapsBeforeSend(i) ==
    IF i = 1 THEN last.before.snaps ELSE last.sends[i - 1].target.snaps

\* C35: sync into a target that exists, holds snapshots and has no resume
\* token outstanding makes no full transfer: every stream it hands to recv
\* is incremental, from a base whose guid is among the target's snapshots
\* when that send is made.
C35_SyncIntoPopulatedIsIncremental ==
    (/\ last.op = "sync"
     /\ last.before.exists
     /\ last.before.snaps # {}
     /\ last.before.token = NoToken)
    => \A i \in 1..Len(last.sends) :
          last.sends[i].stream # NoStream
          => /\ last.sends[i].stream.mode = "incremental"
             /\ last.sends[i].stream.snapshot = last.to_sync[i]
             /\ last.sends[i].stream.base.guid \in GuidSet(SnapsBeforeSend(i))

C35_Witness ==
    /\ SyncDone
    /\ last.before.exists
    /\ last.before.token = NoToken
    /\ Cardinality(last.before.snaps) >= 1
    /\ Len(last.sends) >= 2
    /\ last.sends[1].stream.base.guid \in GuidSet(last.before.snaps)
    /\ last.sends[2].stream.base.guid \notin GuidSet(last.before.snaps)

\* The source snapshots the filter of the last sync matches.
Matching == {s \in src_snaps : Match(last.regex, s.name)}

\* A sync that returned, not a dry run, into a target it found absent or
\* without snapshots, with a source snapshot that matches.
InitialSyncDone ==
    /\ SyncDone
    /\ ~last.before.exists \/ last.before.snaps = {}
    /\ Matching # {}

\* One transfer per matching snapshot, oldest first: the first one full,
\* each later one incremental from the snapshot transferred before it, and
\* the target left with the matching snapshots and no other.
FullThenChained ==
    /\ Len(last.sends) = Cardinality(Matching)
    /\ \A i \in 1..Len(last.sends) :
          /\ Called(last.sends[i].calls, "target.recv")
          /\ last.sends[i].stream.snapshot \in Matching
          /\ \A j \in 1..(i - 1) :
                last.sends[j].stream.snapshot.createtxg
                   < last.sends[i].stream.snapshot.createtxg
    /\ last.sends[1].stream.mode = "full"
    /\ \A i \in 2..Len(last.sends) :
          /\ last.sends[i].stream.mode = "incremental"
          /\ last.sends[i].stream.base = last.sends[i - 1].stream.snapshot
    /\ GuidSet(tgt_snaps) = GuidSet(Matching)
    /\ Cardinality(tgt_snaps) = Cardinality(Matching)

\* C36 as stated: sync into an absent or empty target transfers the k
\* matching snapshots in k transfers, a full one and then incremental ones
\* each from the snapshot before, and leaves exactly these on the target.
C36_InitialSyncFullThenChained == InitialSyncDone => FullThenChained

\* C36: the same where no resume token is outstanding on the target.
C36_InitialSyncFullThenChainedNoToken ==
    (InitialSyncDone /\ last.before.token = NoToken) => FullThenChained

C36_Witness ==
    /\ InitialSyncDone
    /\ last.before.exists
    /\ last.before.token = NoToken
    /\ Len(last.sends) = 2
    /\ last.sends[2].stream.base = last.to_sync[1]
    /\ \E s \in src_snaps \ Matching :
          /\ last.to_sync[1].createtxg < s.createtxg
          /\ s.createtxg < last.to_sync[2].createtxg

\* The estimate is there before the chain of the transfer is run, and a
\* transfer whose estimate raised has run no chain and changed nothing.
EstimateBeforeTransfer ==
    /\ zfs.runs >= 1 => zfs.sized
    /\ zfs.runs <= 1
    /\ (zfs.pc = "aborted" /\ zfs.result \in {"RuntimeError", "SubprocessError"})
         => (zfs.runs = 0 /\ zfs.chain = <<>> /\ ~zfs.changed)
    /\ zfs.changed => (zfs.pc = "done" /\ ~zfs.dry_run)

\* C37 as stated: however often size() is called on a stream, at most one
\* dry run is made for it; the estimate is there before the transfer, and a
\* failed estimate aborts the operation before recv runs anything.
C37_OneDryRunPerStream ==
    /\ zfs.dryruns <= 1
    /\ EstimateBeforeTransfer

\* C37: the dry runs made for a stream are those of the calls of size()
\* that raised and one more for all the calls that returned; send() and
\* recv() themselves make one dry run per stream; the estimate is there
\* before the transfer, and a failed estimate aborts the operation before
\* recv runs anything.
C37_OneDryRunPerEstimate ==
    /\ zfs.fails <= zfs.calls
    /\ zfs.dryruns = zfs.fails + (IF zfs.calls > zfs.fails THEN 1 ELSE 0)
    /\ EstimateBeforeTransfer

C37_Witness ==
    /\ zfs.pc = "done"
    /\ zfs.mode = "resume"
    /\ ~zfs.dry_run
    /\ zfs.changed
    /\ zfs.calls = 4
    /\ zfs.dryruns = 1
    /\ zfs.pipes # <<>>

\* An argument with its size placeholders replaced by n and nothing else
\* done to it.
Substituted(arg, n) ==
    IF arg = "{size}" THEN ToString(n)
    ELSE IF arg = "--size={size}" THEN "--size=" \o ToString(n)
    ELSE arg

\* recv() has been entered and left.
RecvLeft ==
    \/ zfs.pc \in {"done", "failed"}
    \/ zfs.pc = "aborted" /\ zfs.result = "KeyError"

\* recv() has handed the runner one chain: the command of the stream, the
\* filters in the caller's order with the size in place of every
\* placeholder, the receive command.
OneChainHanded ==
    /\ zfs.runs = 1
    /\ Len(zfs.chain) = Len(zfs.pipes) + 2
    /\ zfs.chain[1] = StreamArgs(zfs.mode)
    /\ zfs.chain[Len(zfs.chain)]
         = <<"zfs", "receive", "pool/B">>
              \o (IF zfs.dry_run THEN <<"-n", "-v">> ELSE <<>>)
    /\ \A i \in 1..Len(zfs.pipes) :
          /\ Len(zfs.chain[i + 1]) = Len(zfs.pipes[i])
          /\ \A j \in 1..Len(zfs.pipes[i]) :
                zfs.chain[i + 1][j] = Substituted(zfs.pipes[i][j], zfs.cache.value)

\* C38: for every transfer recv() hands the runner exactly one chain, the
\* producer first, the filters in the caller's order with every size
\* placeholder replaced by the estimate, the receive command last.
C38_OneChainInOrder == RecvLeft => OneChainHanded

\* C38 for filters whose arguments hold no braces but those of the size
\* placeholder.
C38_OneChainInOrderPlainFilters ==
    (RecvLeft /\ \A i \in 1..Len(zfs.pipes) : \A j \in 1..Len(zfs.pipes[i]) :
                    zfs.pipes[i][j] \notin {"{print}", "{{print}}"})
    => OneChainHanded

\* The stream send() builds for snapshot c against the target as the last
\* operation found it.
DecidedOnFound(stream, c) ==
    LET b == last.before
        common == CommonOlder(c, b.snaps)
    IN  IF ~b.exists THEN stream.mode = "full" /\ stream.snapshot = c
        ELSE IF b.token # NoToken
        THEN stream.mode = "resume" /\ stream.token = b.token
        ELSE IF common # {}
        THEN /\ stream.mode = "incremental"
             /\ stream.snapshot = c
             /\ stream.base \in common
             /\ \A e \in common : e.createtxg <= stream.base.createtxg
        ELSE stream.mode = "full" /\ stream.snapshot = c

=============================================================================
